---- MODULE Spec2Model ----
(***************************************************************************)
(* Dual-grid terrain renderer (DualGridSystem and its page wiring).        *)
(*                                                                         *)
(* Screen coordinates are kept in HALF PIXELS so that canvasWidth / 2 and  *)
(* the x + 0.5 tile centres of the source stay exact integers: Px(n) is n  *)
(* pixels, Half(n) is n / 2 pixels.  Noise values and thresholds are kept  *)
(* in tenths (-10 .. 10 stands for -1.0 .. 1.0).                            *)
(***************************************************************************)
EXTENDS Integers, Sequences, FiniteSets, TLC

\* ------------------------------------------------------------------ bounds
MaxSize == 3
MaxCtxDepth == 1
MaxSeed == 1
NumTables == 2
MaxWrites == 1
MaxCam == 6

\* --------------------------------------------------------------- constants
TILE_WIDTH == 64
TILE_HEIGHT == 32
ORTHO_SIZE == 40
Water == 0
Sand == 1
Dirt == 2
Grass == 3
IsometricTextured == 0
IsometricColored == 1
OrthographicColored == 2
BASE_ROLE == 15
TILES_PER_ROW == 8
SAND_THRESHOLD == -2
DIRT_THRESHOLD == 0
GRASS_THRESHOLD == 3
WATER_THRESHOLD == -10

TerrainType == {Water, Sand, Dirt, Grass}
RenderMode == {IsometricTextured, IsometricColored, OrthographicColored}

Px(n) == 2 * n
Half(n) == n

\* input sets
ZoomLevels == {1, 2}
CanvasSizes == {<<801, 600>>}
CamOffsets == {<<3, -2>>}
Scales == {1, 2}
ClickPoints == {<<400, 316>>, <<432, 332>>}

VARIABLES
    perm,                   \* permutation table behind noise2D (chosen at load)
    buckets,                \* guide's TerrainGenerator.buckets (as last supplied)
    isDragging, lastMouseX, lastMouseY, dragStartX, dragStartY,  \* camera panning
    width, height, cells,   \* DualGridSystem grid
    renderMode, cameraOffsetX, cameraOffsetY, zoomLevel,
    showBaseLayer, showTransitionLayer, showWorldGrid, showDualGrid,
    debugTileX, debugTileY,
    selectedTileDebugInfo,  \* module-level debug record (or NoInfo)
    assetsLoaded, terrainAssets,
    loader,                 \* loadTerrainAssets: progress of the four per-terrain loads
    canvasWidth, canvasHeight,
    ctxT, ctxStack,         \* main canvas context: current transform, saved states
    calls,                  \* canvas calls issued by the handler that ran last
    ret,                    \* what the handler that ran last returned / computed
    snap,                   \* history: one earlier generatePerlinMap run (or NoSnap)
    writes                  \* history: number of setCell calls made through the API

gridVars == <<width, height, cells>>
viewVars == <<renderMode, cameraOffsetX, cameraOffsetY, zoomLevel,
              showBaseLayer, showTransitionLayer, showWorldGrid, showDualGrid>>
debugVars == <<debugTileX, debugTileY, selectedTileDebugInfo>>
assetVars == <<assetsLoaded, terrainAssets, loader>>
canvasVars == <<canvasWidth, canvasHeight>>
ctxVars == <<ctxT, ctxStack>>
histVars == <<snap, writes>>
mouseVars == <<isDragging, lastMouseX, lastMouseY, dragStartX, dragStartY>>
vars == <<perm, buckets, mouseVars, gridVars, viewVars, debugVars, assetVars, canvasVars, ctxVars,
          calls, ret, histVars>>

\* ------------------------------------------------------------ small helpers
\* concatenation of ss[lo] .. ss[hi], halving the range
RECURSIVE FlattenRange(_, _, _)
FlattenRange(ss, lo, hi) ==
    IF lo > hi THEN <<>>
    ELSE IF lo = hi THEN ss[lo]
    ELSE LET mid == (lo + hi) \div 2
         IN  FlattenRange(ss, lo, mid) \o FlattenRange(ss, mid + 1, hi)

Flatten(ss) == FlattenRange(ss, 1, Len(ss))

Min2(a, b) == IF a <= b THEN a ELSE b
MathMin4(a, b, c, d) == Min2(Min2(a, b), Min2(c, d))

\* role & bit, for bit in {1, 2, 4, 8}
BitAnd(role, bit) == IF (role \div bit) % 2 = 1 THEN bit ELSE 0
\* Math.abs
Abs(n) == IF n < 0 THEN -n ELSE n
\* role |= bit
BitOr(role, bit) == IF BitAnd(role, bit) = bit THEN role ELSE role + bit

\* tile positions of a w x h grid in the scan order of the nested loops
\* for (y = 0; y < h - 1; y++) for (x = 0; x < w - 1; x++)
TileScan(w, h) ==
    IF w < 2 \/ h < 2 THEN <<>>
    ELSE [i \in 1..((w - 1) * (h - 1)) |->
            [x |-> (i - 1) % (w - 1), y |-> (i - 1) \div (w - 1)]]

\* cell positions for (y = 0; y < h; y++) for (x = 0; x < w; x++)
CellScan(w, h) ==
    IF w < 1 \/ h < 1 THEN <<>>
    ELSE [i \in 1..(w * h) |-> [x |-> (i - 1) % w, y |-> (i - 1) \div w]]

\* ------------------------------------------------------------- TerrainGrid
\* variant: one entry per column
NewCells_width(w, h) == [i \in 0..(w - 1) |-> Water]

NewCells(w, h) == [i \in 0..(w * h - 1) |-> Water]

\* getCell: the value returned and the storage indices it read
getCellReads(x, y) ==
    IF x < 0 \/ x >= width \/ y < 0 \/ y >= height THEN {} ELSE {y * width + x}

getCell(x, y) ==
    IF x < 0 \/ x >= width \/ y < 0 \/ y >= height THEN Water
    ELSE cells[y * width + x]

\* variant: column-major index
setCell_colMajor(w, h, c, x, y, type) ==
    IF x >= 0 /\ x < w /\ y >= 0 /\ y < h
    THEN [c EXCEPT ![x * w + y] = type]
    ELSE c

\* setCell on a grid given by its width, height and cell array
setCell(w, h, c, x, y, type) ==
    IF x >= 0 /\ x < w /\ y >= 0 /\ y < h
    THEN [c EXCEPT ![y * w + x] = type]
    ELSE c

\* ---------------------------------------------------------- canvas context
\* A transform maps a point p to a * p + (bx, by)  (uniform scale, half pixels).
IdentityT == [a |-> 1, bx |-> 0, by |-> 0]

\* one canvas call; px, py are user-space coordinates (or the arguments of
\* translate / scale); pass, layer, x, y, role tag the loop that issued it
Call(op, pass, layer, x, y, role, px, py) ==
    [op |-> op, pass |-> pass, layer |-> layer, x |-> x, y |-> y,
     role |-> role, px |-> px, py |-> py]

CtxCall(op, px, py) == Call(op, "ctx", -1, -1, -1, -1, px, py)

\* CanvasRenderingContext2D: save pushes the current transform, restore pops
\* it (and does nothing on an empty stack), translate / scale post-multiply
CtxStep(c, T, stack) ==
    CASE c.op = "save"      -> [T |-> T, stack |-> Append(stack, T)]
      [] c.op = "restore"   -> IF stack = <<>> THEN [T |-> T, stack |-> stack]
                               ELSE [T |-> stack[Len(stack)],
                                     stack |-> SubSeq(stack, 1, Len(stack) - 1)]
      [] c.op = "translate" -> [T |-> [a |-> T.a, bx |-> T.a * c.px + T.bx,
                                       by |-> T.a * c.py + T.by],
                                stack |-> stack]
      [] c.op = "scale"     -> [T |-> [a |-> T.a * c.px, bx |-> T.bx, by |-> T.by],
                                stack |-> stack]
      [] OTHER              -> [T |-> T, stack |-> stack]

\* the calls cs[lo] .. cs[hi] issued in order from transform T and stack
RECURSIVE RunRange(_, _, _, _, _)
RunRange(cs, lo, hi, T, stack) ==
    IF lo > hi THEN [calls |-> <<>>, T |-> T, stack |-> stack]
    ELSE IF lo = hi
    THEN LET c == cs[lo]
             n == CtxStep(c, T, stack)
             r == [op |-> c.op, pass |-> c.pass, layer |-> c.layer,
                   x |-> c.x, y |-> c.y, role |-> c.role,
                   px |-> c.px, py |-> c.py,
                   ta |-> T.a, tbx |-> T.bx, tby |-> T.by,
                   depth |-> Len(stack)]
         IN  [calls |-> <<r>>, T |-> n.T, stack |-> n.stack]
    ELSE LET mid == (lo + hi) \div 2
             first == RunRange(cs, lo, mid, T, stack)
             rest == RunRange(cs, mid + 1, hi, first.T, first.stack)
         IN  [calls |-> first.calls \o rest.calls, T |-> rest.T, stack |-> rest.stack]

\* run a list of calls on a context; every call is annotated with the
\* transform in effect when it is issued and the stack depth at that moment
RunCalls(cs, T, stack, acc) ==
    LET r == RunRange(cs, 1, Len(cs), T, stack)
    IN  [calls |-> acc \o r.calls, T |-> r.T, stack |-> r.stack]

\* where a call's user-space point lands on the screen (half pixels)
ScreenX(c) == c.ta * c.px + c.tbx
ScreenY(c) == c.ta * c.py + c.tby

\* ------------------------------------------------------------------ assets
Undefined == -1
NoAssets == [has |-> FALSE, wangData |-> <<>>, roleToId |-> <<>>, complete |-> FALSE,
             naturalWidth |-> 0, naturalHeight |-> 0]

\* roleToId built from wang_sets[0].members by forEach(roleToId.set(role, id))
RECURSIVE RoleToIdOf(_, _)
RoleToIdOf(members, acc) ==
    IF members = <<>> THEN acc
    ELSE LET m == Head(members)
         IN  RoleToIdOf(Tail(members),
                [r \in (DOMAIN acc) \cup {m.role} |->
                    IF r = m.role THEN m.id ELSE acc[r]])

\* variant: the members of the last wang set are taken
buildRoleToId_lastSet(wangSets) ==
    IF Len(wangSets) >= 1 THEN RoleToIdOf(wangSets[Len(wangSets)], <<>>) ELSE <<>>

buildRoleToId(wangSets) ==
    IF Len(wangSets) >= 1 THEN RoleToIdOf(wangSets[1], <<>>) ELSE <<>>

MapGet(m, k) == IF k \in DOMAIN m THEN m[k] ELSE Undefined

\* the shipped metadata: roles 1..15 with id = role - 1 (ids 0-7 on row 0,
\* 8-14 on row 1 of a 512 x 64 sheet)
FullMembers == [i \in 1..15 |-> [id |-> i - 1, role |-> i]]
FullAssets == [has |-> TRUE, wangData |-> <<FullMembers>>,
               roleToId |-> buildRoleToId(<<FullMembers>>),
               complete |-> TRUE, naturalWidth |-> 512, naturalHeight |-> 64]
\* metadata without wang_sets: an entry with an empty table
EmptyTableAssets == [has |-> TRUE, wangData |-> <<>>, roleToId |-> buildRoleToId(<<>>),
                     complete |-> TRUE, naturalWidth |-> 512, naturalHeight |-> 64]

AssetSets == { [t \in TerrainType |-> IF t = Sand THEN EmptyTableAssets ELSE FullAssets] }

\* one per-terrain load of loadTerrainAssets: pc is the await it stands at
\* ("fetch", "json", "image") or its outcome ("done", "failed"); img is the
\* state of imgPromise; wang the parsed wang_sets once response.json() resolved
NoWang == << >>
LoadStarted == [pc |-> "fetch", img |-> "pending", wang |-> NoWang]
LoadDone == [pc |-> "done", img |-> "loaded", wang |-> NoWang]

\* ------------------------------------------------------------ drawTileByRole
\* variant: a role without a tile id falls through to the draw
drawTileByRole_fallback(x, y, terrainLayer, role) ==
    IF role = 0 THEN <<>>
    ELSE IF renderMode = IsometricTextured THEN
        LET assets == terrainAssets[terrainLayer]
            tileId == MapGet(assets.roleToId, role)
            row == tileId \div TILES_PER_ROW
            col == tileId % TILES_PER_ROW
            srcX == col * TILE_WIDTH
            srcY == row * TILE_HEIGHT
        IN  IF ~assets.has THEN <<>>
            ELSE IF ~assets.complete THEN <<>>
            ELSE IF assets.naturalWidth = 0 \/ assets.naturalHeight = 0 THEN <<>>
            ELSE IF assets.naturalWidth < srcX + TILE_WIDTH
                    \/ assets.naturalHeight < srcY + TILE_HEIGHT THEN <<>>
            ELSE << Call("drawImage", "tile", terrainLayer, -1, -1, role,
                         x - Half(TILE_WIDTH), y - Half(TILE_HEIGHT)),
                    CtxCall("restore", 0, 0) >>
    ELSE IF renderMode = IsometricColored THEN
        << Call("fill", "tile", terrainLayer, -1, -1, role, x, y),
           CtxCall("restore", 0, 0) >>
    ELSE
        LET half == Half(ORTHO_SIZE)
        IN  (IF BitAnd(role, 1) # 0
             THEN << Call("fillRect", "tile", terrainLayer, -1, -1, 1, x, y) >>
             ELSE <<>>)
         \o (IF BitAnd(role, 2) # 0
             THEN << Call("fillRect", "tile", terrainLayer, -1, -1, 2, x + half, y) >>
             ELSE <<>>)
         \o (IF BitAnd(role, 4) # 0
             THEN << Call("fillRect", "tile", terrainLayer, -1, -1, 4, x, y + half) >>
             ELSE <<>>)
         \o (IF BitAnd(role, 8) # 0
             THEN << Call("fillRect", "tile", terrainLayer, -1, -1, 8, x + half, y + half) >>
             ELSE <<>>)
         \o << CtxCall("restore", 0, 0) >>

\* (x, y) is the draw position in half pixels; returns the canvas calls made
drawTileByRole(x, y, terrainLayer, role) ==
    IF role = 0 THEN <<>>
    ELSE IF renderMode = IsometricTextured THEN
        LET assets == terrainAssets[terrainLayer]
            tileId == MapGet(assets.roleToId, role)
            row == tileId \div TILES_PER_ROW
            col == tileId % TILES_PER_ROW
            srcX == col * TILE_WIDTH
            srcY == row * TILE_HEIGHT
        IN  IF ~assets.has THEN <<>>
            ELSE IF tileId = Undefined THEN <<>>
            ELSE IF ~assets.complete THEN <<>>
            ELSE IF assets.naturalWidth = 0 \/ assets.naturalHeight = 0 THEN <<>>
            ELSE IF assets.naturalWidth < srcX + TILE_WIDTH
                    \/ assets.naturalHeight < srcY + TILE_HEIGHT THEN <<>>
            ELSE << Call("drawImage", "tile", terrainLayer, -1, -1, role,
                         x - Half(TILE_WIDTH), y - Half(TILE_HEIGHT)),
                    CtxCall("restore", 0, 0) >>
    ELSE IF renderMode = IsometricColored THEN
        << Call("fill", "tile", terrainLayer, -1, -1, role, x, y),
           CtxCall("restore", 0, 0) >>
    ELSE
        LET half == Half(ORTHO_SIZE)
        IN  (IF BitAnd(role, 1) # 0
             THEN << Call("fillRect", "tile", terrainLayer, -1, -1, 1, x, y) >>
             ELSE <<>>)
         \o (IF BitAnd(role, 2) # 0
             THEN << Call("fillRect", "tile", terrainLayer, -1, -1, 2, x + half, y) >>
             ELSE <<>>)
         \o (IF BitAnd(role, 4) # 0
             THEN << Call("fillRect", "tile", terrainLayer, -1, -1, 4, x, y + half) >>
             ELSE <<>>)
         \o (IF BitAnd(role, 8) # 0
             THEN << Call("fillRect", "tile", terrainLayer, -1, -1, 8, x + half, y + half) >>
             ELSE <<>>)
         \o << CtxCall("restore", 0, 0) >>

\* calculateTilePosition: draw position of tile (x, y), half pixels
calculateTilePosition(x, y, originX, originY) ==
    IF renderMode = OrthographicColored
    THEN [drawX |-> originX + x * Px(ORTHO_SIZE),
          drawY |-> originY + y * Px(ORTHO_SIZE)]
    ELSE LET centerX2 == 2 * x + 1      \* x + 0.5, doubled
             centerY2 == 2 * y + 1
         IN  [drawX |-> originX + (centerX2 - centerY2) * (TILE_WIDTH \div 2),
              drawY |-> originY + (centerX2 + centerY2) * (TILE_HEIGHT \div 2)]

\* entry of drawTileByRole as render() calls it: a marker for the invocation
\* followed by whatever the drawer issues
DrawAt(pass, x, y, originX, originY, terrainLayer, role) ==
    LET p == calculateTilePosition(x, y, originX, originY)
    IN  << Call("drawTileByRole", pass, terrainLayer, x, y, role, p.drawX, p.drawY) >>
        \o drawTileByRole(p.drawX, p.drawY, terrainLayer, role)

\* variant: corners matched by equality
RenderRole_exact(x, y, currentLayer) ==
    LET tl == getCell(x, y)
        tr == getCell(x + 1, y)
        bl == getCell(x + 1, y + 1)
        br == getCell(x, y + 1)
        r1 == IF tl = currentLayer THEN BitOr(0, 1) ELSE 0
        r2 == IF tr = currentLayer THEN BitOr(r1, 2) ELSE r1
        r3 == IF bl = currentLayer THEN BitOr(r2, 4) ELSE r2
        r4 == IF br = currentLayer THEN BitOr(r3, 8) ELSE r3
    IN  r4

\* variant: corners matched at or below the layer
RenderRole_below(x, y, currentLayer) ==
    LET tl == getCell(x, y)
        tr == getCell(x + 1, y)
        bl == getCell(x + 1, y + 1)
        br == getCell(x, y + 1)
        r1 == IF tl <= currentLayer THEN BitOr(0, 1) ELSE 0
        r2 == IF tr <= currentLayer THEN BitOr(r1, 2) ELSE r1
        r3 == IF bl <= currentLayer THEN BitOr(r2, 4) ELSE r2
        r4 == IF br <= currentLayer THEN BitOr(r3, 8) ELSE r3
    IN  r4

\* variant: corners matched strictly above the layer
RenderRole_strict(x, y, currentLayer) ==
    LET tl == getCell(x, y)
        tr == getCell(x + 1, y)
        bl == getCell(x + 1, y + 1)
        br == getCell(x, y + 1)
        r1 == IF tl > currentLayer THEN BitOr(0, 1) ELSE 0
        r2 == IF tr > currentLayer THEN BitOr(r1, 2) ELSE r1
        r3 == IF bl > currentLayer THEN BitOr(r2, 4) ELSE r2
        r4 == IF br > currentLayer THEN BitOr(r3, 8) ELSE r3
    IN  r4

\* role bitmask of the transition pass of render()
RenderRole(x, y, currentLayer) ==
    LET tl == getCell(x, y)
        tr == getCell(x + 1, y)
        bl == getCell(x + 1, y + 1)
        br == getCell(x, y + 1)
        r1 == IF tl >= currentLayer THEN BitOr(0, 1) ELSE 0
        r2 == IF tr >= currentLayer THEN BitOr(r1, 2) ELSE r1
        r3 == IF bl >= currentLayer THEN BitOr(r2, 4) ELSE r2
        r4 == IF br >= currentLayer THEN BitOr(r3, 8) ELSE r3
    IN  r4

\* variant: the highest corner terrain
RenderBaseTerrain_max(x, y) ==
    LET tl == getCell(x, y)
        tr == getCell(x + 1, y)
        bl == getCell(x + 1, y + 1)
        br == getCell(x, y + 1)
    IN  -MathMin4(-tl, -tr, -bl, -br)

\* variant: the top corner alone
RenderBaseTerrain_top(x, y) == getCell(x, y)

RenderBaseTerrain(x, y) ==
    LET tl == getCell(x, y)
        tr == getCell(x + 1, y)
        bl == getCell(x + 1, y + 1)
        br == getCell(x, y + 1)
    IN  MathMin4(tl, tr, bl, br)

\* variant: descending priority
layerOrder_desc == << Grass, Dirt, Sand >>

layerOrder == << Sand, Dirt, Grass >>

RenderBasePass(originX, originY) ==
    IF showBaseLayer
    THEN LET ts == TileScan(width, height)
         IN  Flatten([i \in 1..Len(ts) |->
                DrawAt("base", ts[i].x, ts[i].y, originX, originY,
                       RenderBaseTerrain(ts[i].x, ts[i].y), BASE_ROLE)])
    ELSE <<>>

\* variant: full tiles are not skipped
RenderTransitionLayer_noSkip15(currentLayer, originX, originY) ==
    LET ts == TileScan(width, height)
    IN  Flatten([i \in 1..Len(ts) |->
            LET role == RenderRole(ts[i].x, ts[i].y, currentLayer)
            IN  IF role = 0 THEN <<>>
                ELSE DrawAt("transition", ts[i].x, ts[i].y, originX, originY,
                            currentLayer, role)])

RenderTransitionLayer(currentLayer, originX, originY) ==
    LET ts == TileScan(width, height)
    IN  Flatten([i \in 1..Len(ts) |->
            LET role == RenderRole(ts[i].x, ts[i].y, currentLayer)
            IN  IF role = 0 \/ role = 15 THEN <<>>
                ELSE DrawAt("transition", ts[i].x, ts[i].y, originX, originY,
                            currentLayer, role)])

RenderTransitionPass(originX, originY) ==
    IF showTransitionLayer
    THEN Flatten([k \in 1..Len(layerOrder) |->
            RenderTransitionLayer(layerOrder[k], originX, originY)])
    ELSE <<>>

\* ---------------------------------------------------------- debug overlays
IsoPointX(originX, cx2, cy2) == originX + (cx2 - cy2) * (TILE_WIDTH \div 2)
IsoPointY(originY, cx2, cy2) == originY + (cx2 + cy2) * (TILE_HEIGHT \div 2)

RenderWorldGrid(originX, originY) ==
    IF ~showWorldGrid THEN <<>>
    ELSE IF renderMode = OrthographicColored
    THEN LET ps == CellScan(width + 1, height + 1)
         IN  Flatten([i \in 1..Len(ps) |->
                LET drawX == originX + ps[i].x * Px(ORTHO_SIZE)
                    drawY == originY + ps[i].y * Px(ORTHO_SIZE)
                IN  (IF ps[i].x < width
                     THEN << Call("stroke", "worldGrid", -1, ps[i].x, ps[i].y, -1, drawX, drawY) >>
                     ELSE <<>>)
                 \o (IF ps[i].y < height
                     THEN << Call("stroke", "worldGrid", -1, ps[i].x, ps[i].y, -1, drawX, drawY) >>
                     ELSE <<>>)])
    ELSE LET ps == CellScan(width, height)
         IN  [i \in 1..Len(ps) |->
                Call("stroke", "worldGrid", -1, ps[i].x, ps[i].y, -1,
                     IsoPointX(originX, 2 * ps[i].x, 2 * ps[i].y),
                     IsoPointY(originY, 2 * ps[i].x, 2 * ps[i].y))]

RenderDualGrid(originX, originY) ==
    IF ~showDualGrid THEN <<>>
    ELSE LET ts == TileScan(width, height)
         IN  IF renderMode = OrthographicColored
             THEN [i \in 1..Len(ts) |->
                    Call("strokeRect", "dualGrid", -1, ts[i].x, ts[i].y, -1,
                         originX + ts[i].x * Px(ORTHO_SIZE),
                         originY + ts[i].y * Px(ORTHO_SIZE))]
             ELSE [i \in 1..Len(ts) |->
                    Call("stroke", "dualGrid", -1, ts[i].x, ts[i].y, -1,
                         IsoPointX(originX, 2 * ts[i].x + 1, 2 * ts[i].y + 1),
                         IsoPointY(originY, 2 * ts[i].x + 1, 2 * ts[i].y + 1))]

RenderDebugIndicators(originX, originY) ==
    IF ~(debugTileX >= 0 /\ debugTileY >= 0) THEN <<>>
    ELSE LET x == debugTileX
             y == debugTileY
         IN  IF renderMode = OrthographicColored
             THEN LET corners == << [cx |-> x, cy |-> y], [cx |-> x + 1, cy |-> y],
                                    [cx |-> x, cy |-> y + 1], [cx |-> x + 1, cy |-> y + 1] >>
                  IN  Flatten([i \in 1..4 |->
                        LET drawX == originX + corners[i].cx * Px(ORTHO_SIZE)
                            drawY == originY + corners[i].cy * Px(ORTHO_SIZE)
                        IN  << Call("fill", "debug", -1, corners[i].cx, corners[i].cy, -1, drawX, drawY),
                               Call("stroke", "debug", -1, corners[i].cx, corners[i].cy, -1, drawX, drawY) >>])
                      \o << Call("strokeRect", "debug", -1, x, y, -1,
                                 originX + x * Px(ORTHO_SIZE), originY + y * Px(ORTHO_SIZE)) >>
             ELSE LET corners == << [cx |-> x, cy |-> y], [cx |-> x + 1, cy |-> y],
                                    [cx |-> x + 1, cy |-> y + 1], [cx |-> x, cy |-> y + 1] >>
                  IN  Flatten([i \in 1..4 |->
                        LET drawX == IsoPointX(originX, 2 * corners[i].cx, 2 * corners[i].cy)
                            drawY == IsoPointY(originY, 2 * corners[i].cx, 2 * corners[i].cy)
                        IN  << Call("fill", "debug", -1, corners[i].cx, corners[i].cy, -1, drawX, drawY),
                               Call("stroke", "debug", -1, corners[i].cx, corners[i].cy, -1, drawX, drawY) >>])
                      \o << Call("stroke", "debug", -1, x, y, -1,
                                 IsoPointX(originX, 2 * x + 1, 2 * y + 1),
                                 IsoPointY(originY, 2 * x + 1, 2 * y + 1)) >>

\* ------------------------------------------------------------------ render
\* the canvas calls of one render(ctx, canvasWidth, canvasHeight), in order
render ==
    IF ~assetsLoaded THEN <<>>
    ELSE LET originX == Half(canvasWidth) + Px(cameraOffsetX)
             originY == Half(canvasHeight) + Px(cameraOffsetY)
         IN  << CtxCall("save", 0, 0),
                CtxCall("translate", Half(canvasWidth), Half(canvasHeight)),
                CtxCall("scale", zoomLevel, zoomLevel),
                CtxCall("translate", -Half(canvasWidth), -Half(canvasHeight)) >>
             \o RenderBasePass(originX, originY)
             \o RenderTransitionPass(originX, originY)
             \o RenderWorldGrid(originX, originY)
             \o RenderDualGrid(originX, originY)
             \o RenderDebugIndicators(originX, originY)

\* loop(): background, then render() or the loading message
loop ==
    << Call("fillRect", "background", -1, -1, -1, -1, 0, 0) >>
    \o (IF assetsLoaded THEN render
        ELSE << Call("fillText", "loading", -1, -1, -1, -1,
                     Half(canvasWidth), Half(canvasHeight)) >>)

\* ------------------------------------------------------------ exportToImage
MAX_DIMENSION == 16384
MAX_PIXELS == 100000000

drawTileByRoleExport(x, y, terrainLayer, role) ==
    IF role = 0 THEN <<>>
    ELSE IF renderMode = IsometricTextured THEN
        LET assets == terrainAssets[terrainLayer]
            tileId == MapGet(assets.roleToId, role)
        IN  IF ~assets.has \/ ~assets.complete THEN <<>>
            ELSE IF tileId = Undefined THEN <<>>
            ELSE << Call("drawImage", "tile", terrainLayer, -1, -1, role,
                         x - Half(TILE_WIDTH), y - Half(TILE_HEIGHT)) >>
    ELSE IF renderMode = IsometricColored THEN
        << Call("fill", "tile", terrainLayer, -1, -1, role, x, y) >>
    ELSE
        LET half == Half(ORTHO_SIZE)
        IN  (IF BitAnd(role, 1) # 0
             THEN << Call("fillRect", "tile", terrainLayer, -1, -1, 1, x, y) >>
             ELSE <<>>)
         \o (IF BitAnd(role, 2) # 0
             THEN << Call("fillRect", "tile", terrainLayer, -1, -1, 2, x + half, y) >>
             ELSE <<>>)
         \o (IF BitAnd(role, 4) # 0
             THEN << Call("fillRect", "tile", terrainLayer, -1, -1, 4, x, y + half) >>
             ELSE <<>>)
         \o (IF BitAnd(role, 8) # 0
             THEN << Call("fillRect", "tile", terrainLayer, -1, -1, 8, x + half, y + half) >>
             ELSE <<>>)

calculateExportTilePosition(x, y, originX, originY) ==
    IF renderMode = OrthographicColored
    THEN [drawX |-> originX + x * Px(ORTHO_SIZE),
          drawY |-> originY + y * Px(ORTHO_SIZE)]
    ELSE LET centerX2 == 2 * x + 1
             centerY2 == 2 * y + 1
         IN  [drawX |-> originX + (centerX2 - centerY2) * (TILE_WIDTH \div 2),
              drawY |-> originY + (centerX2 + centerY2) * (TILE_HEIGHT \div 2)]

ExportDrawAt(pass, x, y, originX, originY, terrainLayer, role) ==
    LET p == calculateExportTilePosition(x, y, originX, originY)
    IN  << Call("drawTileByRoleExport", pass, terrainLayer, x, y, role, p.drawX, p.drawY) >>
        \o drawTileByRoleExport(p.drawX, p.drawY, terrainLayer, role)

\* variant: the bottom and left corners exchanged
ExportRole_swapped(x, y, currentLayer) ==
    LET tl == getCell(x, y)
        tr == getCell(x + 1, y)
        bl == getCell(x, y + 1)
        br == getCell(x + 1, y + 1)
        r1 == IF tl >= currentLayer THEN BitOr(0, 1) ELSE 0
        r2 == IF tr >= currentLayer THEN BitOr(r1, 2) ELSE r1
        r3 == IF bl >= currentLayer THEN BitOr(r2, 4) ELSE r2
        r4 == IF br >= currentLayer THEN BitOr(r3, 8) ELSE r3
    IN  r4

ExportRole(x, y, currentLayer) ==
    LET tl == getCell(x, y)
        tr == getCell(x + 1, y)
        bl == getCell(x + 1, y + 1)
        br == getCell(x, y + 1)
        r1 == IF tl >= currentLayer THEN BitOr(0, 1) ELSE 0
        r2 == IF tr >= currentLayer THEN BitOr(r1, 2) ELSE r1
        r3 == IF bl >= currentLayer THEN BitOr(r2, 4) ELSE r2
        r4 == IF br >= currentLayer THEN BitOr(r3, 8) ELSE r3
    IN  r4

ExportBaseTerrain(x, y) ==
    LET tl == getCell(x, y)
        tr == getCell(x + 1, y)
        bl == getCell(x + 1, y + 1)
        br == getCell(x, y + 1)
    IN  MathMin4(tl, tr, bl, br)

ExportBasePass(originX, originY) ==
    IF showBaseLayer
    THEN LET ts == TileScan(width, height)
         IN  Flatten([i \in 1..Len(ts) |->
                ExportDrawAt("base", ts[i].x, ts[i].y, originX, originY,
                             ExportBaseTerrain(ts[i].x, ts[i].y), BASE_ROLE)])
    ELSE <<>>

ExportTransitionLayer(currentLayer, originX, originY) ==
    LET ts == TileScan(width, height)
    IN  Flatten([i \in 1..Len(ts) |->
            LET role == ExportRole(ts[i].x, ts[i].y, currentLayer)
            IN  IF role = 0 \/ role = 15 THEN <<>>
                ELSE ExportDrawAt("transition", ts[i].x, ts[i].y, originX, originY,
                                  currentLayer, role)])

ExportTransitionPass(originX, originY) ==
    IF showTransitionLayer
    THEN Flatten([k \in 1..Len(layerOrder) |->
            ExportTransitionLayer(layerOrder[k], originX, originY)])
    ELSE <<>>

\* size of the export canvas, whole pixels
ExportCanvasWidth ==
    IF renderMode = OrthographicColored THEN (width - 1) * ORTHO_SIZE
    ELSE (width + height - 1) * (TILE_WIDTH \div 2) + TILE_WIDTH

ExportCanvasHeight_noPad ==
    IF renderMode = OrthographicColored THEN (height - 1) * ORTHO_SIZE
    ELSE (width + height - 1) * (TILE_HEIGHT \div 2)

ExportCanvasHeight ==
    IF renderMode = OrthographicColored THEN (height - 1) * ORTHO_SIZE
    ELSE (width + height - 1) * (TILE_HEIGHT \div 2) + TILE_HEIGHT

\* exportToImage(): null (canvas FALSE, nothing created or drawn), or the
\* canvas with its dimensions and the calls drawn on it
NoCanvas == [canvas |-> FALSE, width |-> 0, height |-> 0, calls |-> <<>>]

exportToImage ==
    LET cw == ExportCanvasWidth
        ch == ExportCanvasHeight
    IN  IF cw > MAX_DIMENSION \/ ch > MAX_DIMENSION THEN NoCanvas
        ELSE IF cw * ch > MAX_PIXELS THEN NoCanvas
        ELSE LET bg == << Call("fillRect", "background", -1, -1, -1, -1, 0, 0) >>
                 originX == Half(cw)
                 originY == IF renderMode = OrthographicColored THEN 0
                            ELSE Half(ch) - (height - 1) * (TILE_HEIGHT \div 2)
             IN  [canvas |-> TRUE, width |-> cw, height |-> ch,
                  calls |-> IF ~assetsLoaded THEN bg
                            ELSE bg \o ExportBasePass(originX, originY)
                                    \o ExportTransitionPass(originX, originY)]

\* -------------------------------------------------------------- getDebugInfo
NoInfo == [null |-> TRUE]

DebugRole(tl, tr, bl, br, currentLayer) ==
    LET r1 == IF tl >= currentLayer THEN BitOr(0, 1) ELSE 0
        r2 == IF tr >= currentLayer THEN BitOr(r1, 2) ELSE r1
        r3 == IF bl >= currentLayer THEN BitOr(r2, 4) ELSE r2
        r4 == IF br >= currentLayer THEN BitOr(r3, 8) ELSE r3
    IN  r4

DebugLayer(tl, tr, bl, br, currentLayer) ==
    LET role == DebugRole(tl, tr, bl, br, currentLayer)
        assets == terrainAssets[currentLayer]
    IN  IF role = 0
        THEN [terrain |-> currentLayer, role |-> role, tileId |-> Undefined,
              drawn |-> FALSE, reason |-> "Skipped: No corners at this priority level"]
        ELSE IF role = 15
        THEN [terrain |-> currentLayer, role |-> role, tileId |-> Undefined,
              drawn |-> FALSE, reason |-> "Skipped: Full tile (already in base layer)"]
        ELSE [terrain |-> currentLayer, role |-> role,
              tileId |-> IF assets.has THEN MapGet(assets.roleToId, role) ELSE Undefined,
              drawn |-> TRUE, reason |-> "Drawn: Partial transition tile"]

\* variant: grid-quadrant corner order (bl below tl, br diagonal)
getDebugInfo_quadrants(x, y) ==
    IF x < 0 \/ x >= width - 1 \/ y < 0 \/ y >= height - 1 THEN NoInfo
    ELSE LET tl == getCell(x, y)
             tr == getCell(x + 1, y)
             bl == getCell(x, y + 1)
             br == getCell(x + 1, y + 1)
             baseTerrain == MathMin4(tl, tr, bl, br)
             baseAssets == terrainAssets[baseTerrain]
         IN  [null |-> FALSE, gridX |-> x, gridY |-> y,
              corners |-> [tl |-> tl, tr |-> tr, bl |-> bl, br |-> br],
              baseLayer |-> [terrain |-> baseTerrain, role |-> 15,
                             tileId |-> IF baseAssets.has
                                        THEN MapGet(baseAssets.roleToId, 15)
                                        ELSE Undefined],
              transitionLayers |-> [k \in 1..3 |->
                    DebugLayer(tl, tr, bl, br, (<< Sand, Dirt, Grass >>)[k])]]

getDebugInfo(x, y) ==
    IF x < 0 \/ x >= width - 1 \/ y < 0 \/ y >= height - 1 THEN NoInfo
    ELSE LET tl == getCell(x, y)
             tr == getCell(x + 1, y)
             bl == getCell(x + 1, y + 1)
             br == getCell(x, y + 1)
             baseTerrain == MathMin4(tl, tr, bl, br)
             baseAssets == terrainAssets[baseTerrain]
         IN  [null |-> FALSE, gridX |-> x, gridY |-> y,
              corners |-> [tl |-> tl, tr |-> tr, bl |-> bl, br |-> br],
              baseLayer |-> [terrain |-> baseTerrain, role |-> 15,
                             tileId |-> IF baseAssets.has
                                        THEN MapGet(baseAssets.roleToId, 15)
                                        ELSE Undefined],
              transitionLayers |-> [k \in 1..3 |->
                    DebugLayer(tl, tr, bl, br, (<< Sand, Dirt, Grass >>)[k])]]

\* ---------------------------------------------------------------- screenToGrid
\* variant: the camera offset is left out of the origin
screenToGrid_noCamera(screenX, screenY) ==
    LET originX == Half(canvasWidth)
        originY == Half(canvasHeight)
    IN  IF renderMode = OrthographicColored
        THEN [x |-> (screenX - originX) \div Px(ORTHO_SIZE),
              y |-> (screenY - originY) \div Px(ORTHO_SIZE)]
        ELSE LET relX == screenX - originX
                 relY == screenY - originY
                 tw2 == TILE_WIDTH \div 2
                 th2 == TILE_HEIGHT \div 2
             IN  [x |-> (relX * th2 + relY * tw2) \div (2 * Px(tw2 * th2)),
                  y |-> (relY * tw2 - relX * th2) \div (2 * Px(tw2 * th2))]

\* screenX, screenY in half pixels; Math.floor of the exact quotient
screenToGrid(screenX, screenY) ==
    LET originX == Half(canvasWidth) + Px(cameraOffsetX)
        originY == Half(canvasHeight) + Px(cameraOffsetY)
    IN  IF renderMode = OrthographicColored
        THEN [x |-> (screenX - originX) \div Px(ORTHO_SIZE),
              y |-> (screenY - originY) \div Px(ORTHO_SIZE)]
        ELSE LET relX == screenX - originX
                 relY == screenY - originY
                 tw2 == TILE_WIDTH \div 2
                 th2 == TILE_HEIGHT \div 2
                 \* (relX / tw2 + relY / th2) / 2 over the common denominator
             IN  [x |-> (relX * th2 + relY * tw2) \div (2 * Px(tw2 * th2)),
                  y |-> (relY * tw2 - relX * th2) \div (2 * Px(tw2 * th2))]

\* ------------------------------------------------------- generatePerlinMap
\* noise2D = createNoise2D(): a fixed function of its two arguments once the
\* permutation table is drawn (Math.random at module load); simplex noise is
\* 0 at the origin.  Values in tenths.
NoiseValues == << 0, -2, 3, -10, 10, 5, -5, 1, -1 >>

noise2D(table, a, b) ==
    NoiseValues[(((3 * a + 5 * b) * (table + 1) + a * b * table) % Len(NoiseValues)) + 1]

\* Map noise to Terrain
TerrainOfNoise(value) ==
    LET t0 == Water
        t1 == IF value > SAND_THRESHOLD THEN Sand ELSE t0
        t2 == IF value > DIRT_THRESHOLD THEN Dirt ELSE t1
        t3 == IF value > GRASS_THRESHOLD THEN Grass ELSE t2
    IN  t3

NoiseAt(table, x, y, scale, seed) == noise2D(table, (x + seed) * scale, (y + seed) * scale)

RECURSIVE GenerateFrom(_, _, _, _, _, _, _)
GenerateFrom(ps, w, h, c, table, scale, seed) ==
    IF ps = <<>> THEN c
    ELSE LET p == Head(ps)
             value == NoiseAt(table, p.x, p.y, scale, seed)
         IN  GenerateFrom(Tail(ps), w, h,
                          setCell(w, h, c, p.x, p.y, TerrainOfNoise(value)),
                          table, scale, seed)

\* cells of the w x h grid after generatePerlinMap({scale, seed, size})
generatePerlinMap(w, h, c, table, scale, seed) ==
    GenerateFrom(CellScan(w, h), w, h, c, table, scale, seed)

GenRecord(w, h, table, scale, seed, newCells) ==
    [kind |-> "generate", seed |-> seed, scale |-> scale,
     width |-> w, height |-> h,
     noise |-> [i \in 0..(w * h - 1) |-> NoiseAt(table, i % w, i \div w, scale, seed)],
     cells |-> newCells]

\* a result as the history keeps it (without the form texts of an Apply)
Generation(r) == [k \in DOMAIN r \ {"form"} |-> r[k]]

NoSnap == [kind |-> "none"]
NoRet == [kind |-> "none"]

\* ==================================================================== page
\* scale is counted in units of the initial 0.015
INITIAL_SCALE == 1
MAX_MAP_SIZE == 500
Null == -1
Seeds == 0..MaxSeed

\* module load: noise table drawn, grid constructed and generated with the
\* initial seed, render settings at their field defaults, nothing loaded
PageState(table, n, seed, cv) ==
    /\ perm = table
    /\ buckets = <<>> /\ isDragging = FALSE /\ lastMouseX = 0 /\ lastMouseY = 0
    /\ dragStartX = 0 /\ dragStartY = 0
    /\ width = n /\ height = n
    /\ cells = generatePerlinMap(n, n, NewCells(n, n), table, INITIAL_SCALE, seed)
    /\ renderMode = IsometricColored
    /\ cameraOffsetX = 0 /\ cameraOffsetY = 0 /\ zoomLevel = 1
    /\ showBaseLayer = TRUE /\ showTransitionLayer = TRUE
    /\ showWorldGrid = FALSE /\ showDualGrid = FALSE
    /\ debugTileX = -1 /\ debugTileY = -1
    /\ selectedTileDebugInfo = NoInfo
    /\ assetsLoaded = FALSE
    /\ terrainAssets = [t \in TerrainType |-> NoAssets]
    /\ loader = [t \in TerrainType |-> LoadStarted]
    /\ canvasWidth = cv[1] /\ canvasHeight = cv[2]
    /\ ctxT = IdentityT /\ ctxStack = <<>>
    /\ calls = <<>>
    /\ ret = GenRecord(n, n, table, INITIAL_SCALE, seed,
                       generatePerlinMap(n, n, NewCells(n, n), table, INITIAL_SCALE, seed))
    /\ writes = 0

Init ==
    /\ \E table \in 0..(NumTables - 1), n \in 1..MaxSize, seed \in Seeds, cv \in CanvasSizes :
           PageState(table, n, seed, cv)
    /\ snap = NoSnap

\* the page is loaded again: the module top level runs anew
PageLoad ==
    /\ \E table \in 0..(NumTables - 1), n \in 1..MaxSize, seed \in Seeds, cv \in CanvasSizes :
           /\ perm' = table
           /\ buckets' = <<>> /\ isDragging' = FALSE /\ lastMouseX' = 0 /\ lastMouseY' = 0
           /\ dragStartX' = 0 /\ dragStartY' = 0
           /\ width' = n /\ height' = n
           /\ cells' = generatePerlinMap(n, n, NewCells(n, n), table, INITIAL_SCALE, seed)
           /\ ret' = GenRecord(n, n, table, INITIAL_SCALE, seed, cells')
           /\ canvasWidth' = cv[1] /\ canvasHeight' = cv[2]
    /\ renderMode' = IsometricColored
    /\ cameraOffsetX' = 0 /\ cameraOffsetY' = 0 /\ zoomLevel' = 1
    /\ showBaseLayer' = TRUE /\ showTransitionLayer' = TRUE
    /\ showWorldGrid' = FALSE /\ showDualGrid' = FALSE
    /\ debugTileX' = -1 /\ debugTileY' = -1
    /\ selectedTileDebugInfo' = NoInfo
    /\ assetsLoaded' = FALSE
    /\ terrainAssets' = [t \in TerrainType |-> NoAssets]
    /\ loader' = [t \in TerrainType |-> LoadStarted]
    /\ ctxT' = IdentityT /\ ctxStack' = <<>>
    /\ calls' = <<>>
    /\ writes' = 0
    /\ snap' \in {snap, Generation(ret)}

\* btnRegenerate click: new random seed, scale from the sliders
Regenerate ==
    \E newSeed \in Seeds, scale \in Scales :
        /\ cells' = generatePerlinMap(width, height, cells, perm, scale, newSeed)
        /\ ret' = GenRecord(width, height, perm, scale, newSeed, cells')
        /\ snap' \in {snap, Generation(ret)}
        /\ calls' = <<>>
        /\ UNCHANGED <<perm, buckets, mouseVars, width, height, viewVars, debugVars, assetVars,
                       canvasVars, ctxVars, writes>>

\* ------------------------------------------------------ form field values
\* the text of an input field: a sequence of characters, each a digit, a
\* blank or some other character ("x")
DigitChars == <<"0", "1", "2", "3", "4", "5", "6", "7", "8", "9">>
IsDigit(c) == \E d \in 1..10 : DigitChars[d] = c
DigitValue(c) == (CHOOSE d \in 1..10 : DigitChars[d] = c) - 1

RECURSIVE ToText(_)
ToText(n) ==
    IF n < 10 THEN << DigitChars[n + 1] >>
    ELSE ToText(n \div 10) \o << DigitChars[(n % 10) + 1] >>

\* the result of parseInt / parseFloat on a text without a leading number
NaN == -2

RECURSIVE SkipBlanks(_)
SkipBlanks(s) ==
    IF s # <<>> /\ Head(s) = " " THEN SkipBlanks(Tail(s)) ELSE s

RECURSIVE ParseDigits(_, _)
ParseDigits(s, acc) ==
    IF s # <<>> /\ IsDigit(Head(s))
    THEN ParseDigits(Tail(s), 10 * acc + DigitValue(Head(s)))
    ELSE acc

\* parseInt(text): leading blanks skipped, the longest digit prefix read,
\* whatever follows ignored
parseInt(text) ==
    LET s == SkipBlanks(text)
    IN  IF s = <<>> \/ ~IsDigit(Head(s)) THEN NaN ELSE ParseDigits(s, 0)

\* parseFloat(text) on the texts used here (no sign, point or exponent)
parseFloat(text) == parseInt(text)

RECURSIVE TrimEnd(_)
TrimEnd(s) ==
    IF s # <<>> /\ s[Len(s)] = " " THEN TrimEnd(SubSeq(s, 1, Len(s) - 1)) ELSE s

trim(text) == TrimEnd(SkipBlanks(text))

\* the size check of btnApplyConfig; comparisons with NaN are false
SizeRejected_noLowerBound(newSize) == newSize # NaN /\ newSize > MAX_MAP_SIZE

SizeRejected(newSize) == newSize # NaN /\ (newSize < 1 \/ newSize > MAX_MAP_SIZE)

\* variant: the zoom level is not copied to the new grid
ResizedGrid_defaultZoom(newSize) ==
    [width |-> newSize, height |-> newSize, cells |-> NewCells(newSize, newSize),
     renderMode |-> renderMode,
     cameraOffsetX |-> cameraOffsetX, cameraOffsetY |-> cameraOffsetY,
     zoomLevel |-> 1,
     showBaseLayer |-> showBaseLayer, showTransitionLayer |-> showTransitionLayer,
     showWorldGrid |-> showWorldGrid, showDualGrid |-> showDualGrid,
     debugTileX |-> -1, debugTileY |-> -1]

\* variant: the selected tile is copied over with the settings
ResizedGrid_keepSelection(newSize) ==
    [width |-> newSize, height |-> newSize, cells |-> NewCells(newSize, newSize),
     renderMode |-> renderMode,
     cameraOffsetX |-> cameraOffsetX, cameraOffsetY |-> cameraOffsetY,
     zoomLevel |-> zoomLevel,
     showBaseLayer |-> showBaseLayer, showTransitionLayer |-> showTransitionLayer,
     showWorldGrid |-> showWorldGrid, showDualGrid |-> showDualGrid,
     debugTileX |-> debugTileX, debugTileY |-> debugTileY]

\* newGrid = new DualGridSystem(newSize, newSize) with the settings copied over
ResizedGrid(newSize) ==
    [width |-> newSize, height |-> newSize, cells |-> NewCells(newSize, newSize),
     renderMode |-> renderMode,
     cameraOffsetX |-> cameraOffsetX, cameraOffsetY |-> cameraOffsetY,
     zoomLevel |-> zoomLevel,
     showBaseLayer |-> showBaseLayer, showTransitionLayer |-> showTransitionLayer,
     showWorldGrid |-> showWorldGrid, showDualGrid |-> showDualGrid,
     debugTileX |-> -1, debugTileY |-> -1]

\* the fields of the live grid
CurrentGrid ==
    [width |-> width, height |-> height, cells |-> cells,
     renderMode |-> renderMode,
     cameraOffsetX |-> cameraOffsetX, cameraOffsetY |-> cameraOffsetY,
     zoomLevel |-> zoomLevel,
     showBaseLayer |-> showBaseLayer, showTransitionLayer |-> showTransitionLayer,
     showWorldGrid |-> showWorldGrid, showDualGrid |-> showDualGrid,
     debugTileX |-> debugTileX, debugTileY |-> debugTileY]

\* btnApplyConfig click with the values found in the form; the result
\* carries the texts of the size and seed fields it was run with
ApplyConfig(sizeText, scale, seedText) ==
    LET newSize == parseInt(sizeText)
        seedInput == trim(seedText)
        parsedSeed == IF seedInput = <<>> THEN Null ELSE parseFloat(seedInput)
    IN  IF SizeRejected(newSize)
        THEN /\ ret' = [kind |-> "alert", text |-> "Map size must be between 1 and 500",
                     form |-> <<sizeText, seedText>>]
             /\ calls' = <<>>
             /\ UNCHANGED <<perm, buckets, mouseVars, gridVars, viewVars, debugVars, assetVars,
                            canvasVars, ctxVars, writes>>
        ELSE IF seedInput # <<>> /\ parsedSeed = NaN
        THEN /\ ret' = [kind |-> "alert", text |-> "Seed must be a number or left empty",
                     form |-> <<sizeText, seedText>>]
             /\ calls' = <<>>
             /\ UNCHANGED <<perm, buckets, mouseVars, gridVars, viewVars, debugVars, assetVars,
                            canvasVars, ctxVars, writes>>
        ELSE IF newSize = NaN
        \* NaN !== grid.width: new DualGridSystem(NaN, NaN) runs new Array(NaN),
        \* which throws before anything is assigned
        THEN /\ ret' = [kind |-> "throw", text |-> "RangeError: Invalid array length",
                     form |-> <<sizeText, seedText>>]
             /\ calls' = <<>>
             /\ UNCHANGED <<perm, buckets, mouseVars, gridVars, viewVars, debugVars, assetVars,
                            canvasVars, ctxVars, writes>>
        ELSE \E random \in Seeds :
           LET seed == IF parsedSeed # Null THEN parsedSeed ELSE random
               resize == newSize # width \/ newSize # height
               \* Object.assign(grid, newGrid) writes every field of the new
               \* grid, the fresh debug tile included
               g == IF resize THEN ResizedGrid(newSize) ELSE CurrentGrid
           IN  /\ width' = g.width /\ height' = g.height
               /\ cells' = generatePerlinMap(g.width, g.height, g.cells, perm, scale, seed)
               /\ renderMode' = g.renderMode
               /\ cameraOffsetX' = g.cameraOffsetX /\ cameraOffsetY' = g.cameraOffsetY
               /\ zoomLevel' = g.zoomLevel
               /\ showBaseLayer' = g.showBaseLayer
               /\ showTransitionLayer' = g.showTransitionLayer
               /\ showWorldGrid' = g.showWorldGrid /\ showDualGrid' = g.showDualGrid
               /\ debugTileX' = g.debugTileX /\ debugTileY' = g.debugTileY
               /\ ret' = [form |-> <<sizeText, seedText>>]
                            @@ GenRecord(g.width, g.height, perm, scale, seed, cells')
               /\ calls' = <<>>
               /\ UNCHANGED <<perm, buckets, mouseVars, selectedTileDebugInfo, assetVars,
                              canvasVars, ctxVars, writes>>

\* texts tried in the size field and in the seed field: plain numerals (and
\* the empty seed), then texts that are not numerals
SizeNumerals == {ToText(n) : n \in 0..MaxSize} \cup {ToText(MAX_MAP_SIZE + 1)}
SeedNumerals == {ToText(n) : n \in Seeds} \cup {<<>>}

SizeTexts == SizeNumerals \cup {<<>>, <<"x">>, ToText(MaxSize) \o <<"x">>}
SeedTexts == SeedNumerals \cup {<<" ">>, <<"x">>, ToText(1) \o <<"x">>}

\* the click with numerals in the form, the history of generations kept or
\* advanced
ApplyConfigClick ==
    \E sizeText \in SizeNumerals, scale \in Scales, seedText \in SeedNumerals :
        /\ ApplyConfig(sizeText, scale, seedText)
        /\ IF ret'.kind = "generate" THEN snap' \in {snap, Generation(ret)} ELSE snap' = snap

Next ==
    \/ Regenerate
    \/ ApplyConfigClick
    \/ PageLoad

Spec == Init /\ [][Next]_vars

\* ============================================================ frame and UI
\* one animation frame on the main canvas
Loop ==
    LET r == RunCalls(loop, ctxT, ctxStack, <<>>)
    IN  /\ Len(r.stack) <= MaxCtxDepth
        /\ calls' = r.calls
        /\ ctxT' = r.T
        /\ ctxStack' = r.stack
        /\ ret' = [kind |-> "loop"]
        /\ UNCHANGED <<perm, buckets, mouseVars, gridVars, viewVars, debugVars, assetVars, canvasVars, histVars>>

\* btnExport click
ExportClick ==
    IF ~assetsLoaded
    THEN /\ ret' = [kind |-> "alert", text |-> "Please wait for assets to load before exporting"]
         /\ calls' = <<>>
         /\ UNCHANGED <<perm, buckets, mouseVars, gridVars, viewVars, debugVars, assetVars,
                        canvasVars, ctxVars, histVars>>
    ELSE LET tileWidth == IF renderMode = OrthographicColored THEN ORTHO_SIZE ELSE TILE_WIDTH
             tileHeight == IF renderMode = OrthographicColored THEN ORTHO_SIZE ELSE TILE_HEIGHT
             estimatedWidth == IF renderMode = OrthographicColored
                               THEN (width - 1) * tileWidth
                               ELSE (width + height - 1) * (TILE_WIDTH \div 2) + TILE_WIDTH
             estimatedHeight == IF renderMode = OrthographicColored
                                THEN (height - 1) * tileHeight
                                ELSE (width + height - 1) * (TILE_HEIGHT \div 2) + TILE_HEIGHT
             e == exportToImage
         IN  /\ ret' = [kind |-> "export", canvas |-> e.canvas,
                        width |-> e.width, height |-> e.height,
                        \* the alert shown when exportToImage returned null
                        alert |-> IF e.canvas THEN <<>>
                                  ELSE <<width, height, estimatedWidth, estimatedHeight>>]
             /\ calls' = RunCalls(e.calls, IdentityT, <<>>, <<>>).calls
             /\ UNCHANGED <<perm, buckets, mouseVars, gridVars, viewVars, debugVars, assetVars,
                            canvasVars, ctxVars, histVars>>

\* handleTileClick at canvas pixel (canvasX, canvasY)
handleTileClick(canvasX, canvasY) ==
    LET gridCoords == screenToGrid(Px(canvasX), Px(canvasY))
        debugInfo == getDebugInfo(gridCoords.x, gridCoords.y)
    IN  /\ IF debugInfo # NoInfo
           THEN /\ selectedTileDebugInfo' = debugInfo
                /\ debugTileX' = gridCoords.x
                /\ debugTileY' = gridCoords.y
           ELSE UNCHANGED debugVars
        /\ ret' = [kind |-> "click", hit |-> debugInfo # NoInfo,
                   at |-> <<canvasX, canvasY>>]
        /\ calls' = <<>>
        /\ UNCHANGED <<perm, buckets, mouseVars, gridVars, viewVars, assetVars, canvasVars, ctxVars, histVars>>

TileClick == \E p \in ClickPoints : handleTileClick(p[1], p[2])

UiFrame == /\ calls' = <<>>
           /\ ret' = [kind |-> "ui"]
           /\ UNCHANGED <<perm, buckets, mouseVars, gridVars, debugVars, assetVars, canvasVars, ctxVars, histVars>>

SetRenderMode(m) ==
    /\ renderMode' = m
    /\ UiFrame
    /\ UNCHANGED <<cameraOffsetX, cameraOffsetY, zoomLevel,
                   showBaseLayer, showTransitionLayer, showWorldGrid, showDualGrid>>

BtnTextured == SetRenderMode(IsometricTextured)
BtnColored == SetRenderMode(IsometricColored)
BtnOrtho == SetRenderMode(OrthographicColored)

ChkBaseLayer ==
    /\ showBaseLayer' = ~showBaseLayer
    /\ UiFrame
    /\ UNCHANGED <<renderMode, cameraOffsetX, cameraOffsetY, zoomLevel,
                   showTransitionLayer, showWorldGrid, showDualGrid>>

ChkTransitionLayer ==
    /\ showTransitionLayer' = ~showTransitionLayer
    /\ UiFrame
    /\ UNCHANGED <<renderMode, cameraOffsetX, cameraOffsetY, zoomLevel,
                   showBaseLayer, showWorldGrid, showDualGrid>>

ChkWorldGrid ==
    /\ showWorldGrid' = ~showWorldGrid
    /\ UiFrame
    /\ UNCHANGED <<renderMode, cameraOffsetX, cameraOffsetY, zoomLevel,
                   showBaseLayer, showTransitionLayer, showDualGrid>>

ChkDualGrid ==
    /\ showDualGrid' = ~showDualGrid
    /\ UiFrame
    /\ UNCHANGED <<renderMode, cameraOffsetX, cameraOffsetY, zoomLevel,
                   showBaseLayer, showTransitionLayer, showWorldGrid>>

\* the host assigns the public field zoomLevel
SetZoomLevel ==
    \E z \in ZoomLevels :
        /\ z # zoomLevel
        /\ zoomLevel' = z
        /\ UiFrame
        /\ UNCHANGED <<renderMode, cameraOffsetX, cameraOffsetY,
                       showBaseLayer, showTransitionLayer, showWorldGrid, showDualGrid>>

\* ------------------------------------------------- role coverage: any corners
\* a grid grown from a 2 x 2 block of arbitrary terrain types: the block
\* repeats, shifted by one terrain type per block column and two per block row
PatternCells(n, pat) ==
    [i \in 0..(n * n - 1) |->
        LET x == i % n
            y == i \div n
        IN  (pat[(x % 2) + 2 * (y % 2)] + (x \div 2) + 2 * (y \div 2)) % 4]

LoadedState(n, c, cv, cam, assets) ==
    /\ perm = 0
    /\ buckets = <<>> /\ isDragging = FALSE /\ lastMouseX = 0 /\ lastMouseY = 0
    /\ dragStartX = 0 /\ dragStartY = 0
    /\ width = n /\ height = n /\ cells = c
    /\ renderMode = IsometricColored
    /\ cameraOffsetX = cam[1] /\ cameraOffsetY = cam[2] /\ zoomLevel = 1
    /\ showBaseLayer = TRUE /\ showTransitionLayer = TRUE
    /\ showWorldGrid = FALSE /\ showDualGrid = FALSE
    /\ debugTileX = -1 /\ debugTileY = -1
    /\ selectedTileDebugInfo = NoInfo
    /\ assetsLoaded = TRUE
    /\ terrainAssets = assets
    /\ loader = [t \in TerrainType |-> LoadDone]
    /\ canvasWidth = cv[1] /\ canvasHeight = cv[2]
    /\ ctxT = IdentityT /\ ctxStack = <<>>
    /\ calls = <<>>
    /\ ret = NoRet
    /\ snap = NoSnap /\ writes = 0

InitRole ==
    \E n \in 1..MaxSize, pat \in [0..3 -> TerrainType], cv \in CanvasSizes :
        LoadedState(n, PatternCells(n, pat), cv, <<0, 0>>,
                    [t \in TerrainType |-> FullAssets])

NextRole ==
    \/ Loop
    \/ ExportClick
    \/ ChkBaseLayer
    \/ ChkTransitionLayer

SpecRole == InitRole /\ [][NextRole]_vars

\* the same grids with the debug clicks
NextDebug ==
    \/ Loop
    \/ ExportClick
    \/ TileClick
    \/ ChkTransitionLayer

SpecDebug == InitRole /\ [][NextDebug]_vars

\* --------------------------------------------------- picking tiles by pixel
\* a panned camera, and canvas pixels in and around the map
PickCams == { <<0, 0>>, <<-17, 9>> }
PickPoints == { <<400, 316>>, <<401, 301>>, <<368, 316>>, <<420, 320>>,
                <<430, 350>>, <<385, 350>>, <<300, 200>> }

InitPick ==
    \E n \in 1..MaxSize, cv \in CanvasSizes, cam \in PickCams :
        LoadedState(n, PatternCells(n, [k \in 0..3 |-> k]), cv, cam,
                    [t \in TerrainType |-> FullAssets])

PickClick == \E p \in PickPoints : handleTileClick(p[1], p[2])

NextPick ==
    \/ PickClick
    \/ BtnTextured
    \/ BtnColored
    \/ BtnOrtho

SpecPick == InitPick /\ [][NextPick]_vars

\* ------------------------------------------------------------ camera panning
\* pointer positions of the mouse events (clientX, clientY; the canvas fills
\* the window, so these are canvas pixels too)
PointerPositions == { <<400, 316>>, <<403, 316>>, <<400, 322>> }
CLICK_DISTANCE == 5

MouseFrame ==
    /\ calls' = <<>>
    /\ UNCHANGED <<perm, buckets, gridVars, renderMode, zoomLevel,
                   showBaseLayer, showTransitionLayer, showWorldGrid, showDualGrid,
                   assetVars, canvasVars, ctxVars, histVars>>

\* canvas mousedown
MouseDownAt(p) ==
    /\ isDragging' = TRUE
    /\ lastMouseX' = p[1] /\ lastMouseY' = p[2]
    /\ dragStartX' = p[1] /\ dragStartY' = p[2]
    /\ ret' = [kind |-> "mousedown", at |-> p]
    /\ UNCHANGED <<cameraOffsetX, cameraOffsetY, debugVars>>
    /\ MouseFrame

\* variant: the camera follows the pointer whether or not a drag is on
MouseMoveAt_always(p) ==
    LET deltaX == p[1] - lastMouseX
        deltaY == p[2] - lastMouseY
    IN  /\ Abs(cameraOffsetX + deltaX) <= MaxCam
        /\ Abs(cameraOffsetY + deltaY) <= MaxCam
        /\ cameraOffsetX' = cameraOffsetX + deltaX
        /\ cameraOffsetY' = cameraOffsetY + deltaY
        /\ lastMouseX' = p[1] /\ lastMouseY' = p[2]
        /\ ret' = [kind |-> "mousemove", at |-> p, dragging |-> isDragging]
        /\ UNCHANGED <<isDragging, dragStartX, dragStartY, debugVars>>
        /\ MouseFrame

\* canvas mousemove
MouseMoveAt(p) ==
    IF ~isDragging
    THEN /\ ret' = [kind |-> "mousemove", at |-> p, dragging |-> isDragging]
         /\ UNCHANGED <<mouseVars, cameraOffsetX, cameraOffsetY, debugVars>>
         /\ MouseFrame
    ELSE LET deltaX == p[1] - lastMouseX
             deltaY == p[2] - lastMouseY
         IN  /\ Abs(cameraOffsetX + deltaX) <= MaxCam
             /\ Abs(cameraOffsetY + deltaY) <= MaxCam
             /\ cameraOffsetX' = cameraOffsetX + deltaX
             /\ cameraOffsetY' = cameraOffsetY + deltaY
             /\ lastMouseX' = p[1] /\ lastMouseY' = p[2]
             /\ ret' = [kind |-> "mousemove", at |-> p, dragging |-> isDragging]
             /\ UNCHANGED <<isDragging, dragStartX, dragStartY, debugVars>>
             /\ MouseFrame

\* canvas mouseup: a click when the pointer is within 5 pixels of where the
\* button went down (Math.sqrt(dx^2 + dy^2) < 5)
MouseUpAt(p) ==
    LET dx == p[1] - dragStartX
        dy == p[2] - dragStartY
        click == dx * dx + dy * dy < CLICK_DISTANCE * CLICK_DISTANCE
        gridCoords == screenToGrid(Px(p[1]), Px(p[2]))
        debugInfo == getDebugInfo(gridCoords.x, gridCoords.y)
    IN  /\ IF click /\ debugInfo # NoInfo
           THEN /\ selectedTileDebugInfo' = debugInfo
                /\ debugTileX' = gridCoords.x
                /\ debugTileY' = gridCoords.y
           ELSE UNCHANGED debugVars
        /\ isDragging' = FALSE
        /\ ret' = [kind |-> "mouseup", at |-> p, click |-> click]
        /\ UNCHANGED <<lastMouseX, lastMouseY, dragStartX, dragStartY,
                       cameraOffsetX, cameraOffsetY>>
        /\ MouseFrame

\* canvas mouseleave
MouseLeave ==
    /\ isDragging' = FALSE
    /\ ret' = [kind |-> "mouseleave"]
    /\ UNCHANGED <<lastMouseX, lastMouseY, dragStartX, dragStartY,
                   cameraOffsetX, cameraOffsetY, debugVars>>
    /\ MouseFrame

MouseDown == \E p \in PointerPositions : MouseDownAt(p)
MouseMove == \E p \in PointerPositions : MouseMoveAt(p)
MouseUp == \E p \in PointerPositions : MouseUpAt(p)

InitMouse ==
    \E n \in 1..MaxSize, cv \in CanvasSizes :
        LoadedState(n, PatternCells(n, [k \in 0..3 |-> k]), cv, <<0, 0>>,
                    [t \in TerrainType |-> FullAssets])

NextMouse ==
    \/ MouseDown
    \/ MouseMove
    \/ MouseUp
    \/ MouseLeave

SpecMouse == InitMouse /\ [][NextMouse]_vars

\* the same grids in the colored modes, at either zoom level
NextQuadrant ==
    \/ Loop
    \/ BtnColored
    \/ BtnOrtho
    \/ SetZoomLevel

SpecQuadrant == InitRole /\ [][NextQuadrant]_vars

\* --------------------------------------------- frames: all modes and overlays
FramePatterns == { <<Water, Sand, Grass, Dirt>>,
                   <<Grass, Water, Water, Water>> }

InitFrame ==
    \E n \in 1..MaxSize, pat \in FramePatterns, cv \in CanvasSizes,
       cam \in CamOffsets, assets \in AssetSets :
        LoadedState(n, PatternCells(n, [k \in 0..3 |-> pat[k + 1]]), cv, cam, assets)

NextFrame ==
    \/ Loop
    \/ ExportClick
    \/ TileClick
    \/ BtnTextured
    \/ BtnColored
    \/ BtnOrtho
    \/ ChkBaseLayer
    \/ ChkTransitionLayer
    \/ ChkWorldGrid
    \/ ChkDualGrid
    \/ SetZoomLevel

SpecFrame == InitFrame /\ [][NextFrame]_vars

\* ------------------------------------------------- configuration panel
\* render settings and tile selection as the page starts with them, and as
\* the mode button, a drag, the wheel, the four checkboxes and a click on
\* tile (0, 0) leave them
ViewProfiles ==
    { [renderMode |-> IsometricColored, cam |-> <<0, 0>>, zoomLevel |-> 1,
       showBaseLayer |-> TRUE, showTransitionLayer |-> TRUE,
       showWorldGrid |-> FALSE, showDualGrid |-> FALSE, clicked |-> FALSE],
      [renderMode |-> OrthographicColored, cam |-> <<3, -2>>, zoomLevel |-> 2,
       showBaseLayer |-> FALSE, showTransitionLayer |-> FALSE,
       showWorldGrid |-> TRUE, showDualGrid |-> TRUE, clicked |-> TRUE] }

\* the loaded page, the map as first generated
InitConfig ==
    \E n \in 1..MaxSize, seed \in Seeds, cv \in CanvasSizes, v \in ViewProfiles :
        /\ perm = 0
        /\ buckets = <<>> /\ isDragging = FALSE /\ lastMouseX = 0 /\ lastMouseY = 0
        /\ dragStartX = 0 /\ dragStartY = 0
        /\ width = n /\ height = n
        /\ cells = generatePerlinMap(n, n, NewCells(n, n), 0, INITIAL_SCALE, seed)
        /\ renderMode = v.renderMode
        /\ cameraOffsetX = v.cam[1] /\ cameraOffsetY = v.cam[2]
        /\ zoomLevel = v.zoomLevel
        /\ showBaseLayer = v.showBaseLayer
        /\ showTransitionLayer = v.showTransitionLayer
        /\ showWorldGrid = v.showWorldGrid /\ showDualGrid = v.showDualGrid
        /\ assetsLoaded = TRUE
        /\ terrainAssets = [t \in TerrainType |-> FullAssets]
        /\ loader = [t \in TerrainType |-> LoadDone]
        /\ canvasWidth = cv[1] /\ canvasHeight = cv[2]
        /\ ctxT = IdentityT /\ ctxStack = <<>>
        /\ calls = <<>>
        /\ ret = NoRet
        /\ snap = NoSnap /\ writes = 0
        /\ IF v.clicked /\ getDebugInfo(0, 0) # NoInfo
           THEN /\ debugTileX = 0 /\ debugTileY = 0
                /\ selectedTileDebugInfo = getDebugInfo(0, 0)
           ELSE /\ debugTileX = -1 /\ debugTileY = -1
                /\ selectedTileDebugInfo = NoInfo

\* the Apply click with the scale sliders left alone (no generation is
\* remembered)
ApplyConfigForm ==
    \E sizeText \in SizeTexts, seedText \in SeedTexts :
        /\ ApplyConfig(sizeText, INITIAL_SCALE, seedText)
        /\ snap' = snap

NextConfig == ApplyConfigForm

SpecConfig == InitConfig /\ [][NextConfig]_vars

\* ------------------------------------------- selection across regenerations
InitSelect ==
    \E n \in 1..MaxSize, cv \in CanvasSizes :
        LoadedState(n, PatternCells(n, [k \in 0..3 |-> k]), cv, <<0, 0>>,
                    [t \in TerrainType |-> FullAssets])

\* Apply with a numeral in the size field and the seed field left empty
ApplySize ==
    \E sizeText \in SizeNumerals :
        /\ ApplyConfig(sizeText, INITIAL_SCALE, <<>>)
        /\ snap' = snap

NextSelect ==
    \/ TileClick
    \/ ApplySize
    \/ Loop

SpecSelect == InitSelect /\ [][NextSelect]_vars

\* ------------------------------------------- export of small and large maps
\* map sizes beyond the export limits: 252 exceeds the pixel limit in every
\* mode, 411 the dimension limit in every mode
LargeSizes == {252, 411}

\* a uniform map, as generatePerlinMap leaves it with scale 0
UniformCells(n, t) == [i \in 0..(n * n - 1) |-> t]

InitExport ==
    \/ \E n \in 1..MaxSize, pat \in FramePatterns, cv \in CanvasSizes :
           LoadedState(n, PatternCells(n, [k \in 0..3 |-> pat[k + 1]]), cv, <<0, 0>>,
                       [t \in TerrainType |-> FullAssets])
    \/ \E n \in LargeSizes, cv \in CanvasSizes :
           LoadedState(n, UniformCells(n, Sand), cv, <<0, 0>>,
                       [t \in TerrainType |-> FullAssets])

NextExport ==
    \/ ExportClick
    \/ BtnTextured
    \/ BtnColored
    \/ BtnOrtho
    \/ ChkBaseLayer
    \/ ChkTransitionLayer

SpecExport == InitExport /\ [][NextExport]_vars

\* ------------------------------------------------------ loadTerrainAssets
\* the metadata files a terrain may ship: the full set, or no wang_sets
WangFiles == { <<FullMembers>>, << >> }

LoadStep(t, next) ==
    /\ loader' = [loader EXCEPT ![t] = next]
    /\ calls' = <<>>
    /\ ret' = [kind |-> "load"]
    /\ UNCHANGED <<perm, buckets, mouseVars, gridVars, viewVars, debugVars, canvasVars, ctxVars, histVars>>

\* img.onload / img.onerror settle imgPromise
ImgOnload ==
    \E t \in TerrainType :
        /\ loader[t].img = "pending"
        /\ LoadStep(t, [loader[t] EXCEPT !.img = "loaded"])
        /\ UNCHANGED <<assetsLoaded, terrainAssets>>

ImgOnerror ==
    \E t \in TerrainType :
        /\ loader[t].img = "pending"
        /\ LoadStep(t, [loader[t] EXCEPT !.img = "error"])
        /\ UNCHANGED <<assetsLoaded, terrainAssets>>

\* await fetch(...) resolves
FetchResolved ==
    \E t \in TerrainType :
        /\ loader[t].pc = "fetch"
        /\ LoadStep(t, [loader[t] EXCEPT !.pc = "json"])
        /\ UNCHANGED <<assetsLoaded, terrainAssets>>

\* fetch or response.json() rejects: the per-terrain promise rejects
FetchRejected ==
    \E t \in TerrainType :
        /\ loader[t].pc \in {"fetch", "json"}
        /\ LoadStep(t, [loader[t] EXCEPT !.pc = "failed"])
        /\ UNCHANGED <<assetsLoaded, terrainAssets>>

\* await response.json() resolves with the parsed metadata
JsonResolvedWith(files) ==
    \E t \in TerrainType, w \in files :
        /\ loader[t].pc = "json"
        /\ LoadStep(t, [loader[t] EXCEPT !.pc = "image", !.wang = w])
        /\ UNCHANGED <<assetsLoaded, terrainAssets>>

JsonResolved == JsonResolvedWith(WangFiles)

\* await imgPromise resumes: the table is built and the entry stored, or the
\* rejection of imgPromise is rethrown
ImageAwaited ==
    \E t \in TerrainType :
        /\ loader[t].pc = "image"
        /\ loader[t].img # "pending"
        /\ IF loader[t].img = "loaded"
           THEN /\ terrainAssets' = [terrainAssets EXCEPT ![t] =
                        [has |-> TRUE, wangData |-> loader[t].wang,
                         roleToId |-> buildRoleToId(loader[t].wang),
                         complete |-> TRUE, naturalWidth |-> 512, naturalHeight |-> 64]]
                /\ LoadStep(t, LoadDone)
           ELSE /\ LoadStep(t, [loader[t] EXCEPT !.pc = "failed", !.wang = NoWang])
                /\ UNCHANGED terrainAssets
        /\ UNCHANGED assetsLoaded

\* variant: the flag is set as soon as one load is fulfilled
AllAssetsLoaded_any ==
    /\ ~assetsLoaded
    /\ \E t \in TerrainType : loader[t].pc = "done"
    /\ assetsLoaded' = TRUE
    /\ calls' = <<>>
    /\ ret' = [kind |-> "load"]
    /\ UNCHANGED <<perm, buckets, mouseVars, gridVars, viewVars, debugVars, terrainAssets, loader,
                   canvasVars, ctxVars, histVars>>

\* await Promise.all(promises) resumes once all four loads are fulfilled
AllAssetsLoaded ==
    /\ ~assetsLoaded
    /\ \A t \in TerrainType : loader[t].pc = "done"
    /\ assetsLoaded' = TRUE
    /\ calls' = <<>>
    /\ ret' = [kind |-> "load"]
    /\ UNCHANGED <<perm, buckets, mouseVars, gridVars, viewVars, debugVars, terrainAssets, loader,
                   canvasVars, ctxVars, histVars>>

\* the page from its load on, with the frames running while assets arrive
InitLoad ==
    /\ \E n \in 1..MaxSize, cv \in CanvasSizes : PageState(0, n, 0, cv)
    /\ snap = NoSnap

NextLoad ==
    \/ ImgOnload
    \/ ImgOnerror
    \/ FetchResolved
    \/ FetchRejected
    \/ JsonResolved
    \/ ImageAwaited
    \/ AllAssetsLoaded
    \/ Loop
    \/ ExportClick

SpecLoad == InitLoad /\ [][NextLoad]_vars

\* ------------------------------------------------- edited Wang metadata
\* members lists of up to MaxMembers members over two roles and two ids,
\* alone or followed by a second wang set, and metadata without wang_sets
MaxMembers == 2
SampleMembers == [id : {0, 9}, role : {1, 2}]
MemberLists == UNION { [1..k -> SampleMembers] : k \in 0..MaxMembers }
LaterSet == << [id |-> 5, role |-> 1], [id |-> 6, role |-> 3] >>
WangSamples ==
    { << >> } \cup { <<l>> : l \in MemberLists } \cup { <<l, LaterSet>> : l \in MemberLists }

JsonResolvedSample == JsonResolvedWith(WangSamples)

\* the page with the Water, Dirt and Grass loads fulfilled and the Sand load
\* still at its fetch
InitWang ==
    \E n \in 1..MaxSize, seed \in Seeds, cv \in CanvasSizes :
        /\ perm = 0
        /\ buckets = <<>> /\ isDragging = FALSE /\ lastMouseX = 0 /\ lastMouseY = 0
        /\ dragStartX = 0 /\ dragStartY = 0
        /\ width = n /\ height = n
        /\ cells = generatePerlinMap(n, n, NewCells(n, n), 0, INITIAL_SCALE, seed)
        /\ renderMode = IsometricColored
        /\ cameraOffsetX = 0 /\ cameraOffsetY = 0 /\ zoomLevel = 1
        /\ showBaseLayer = TRUE /\ showTransitionLayer = TRUE
        /\ showWorldGrid = FALSE /\ showDualGrid = FALSE
        /\ debugTileX = -1 /\ debugTileY = -1
        /\ selectedTileDebugInfo = NoInfo
        /\ assetsLoaded = FALSE
        /\ terrainAssets = [t \in TerrainType |-> IF t = Sand THEN NoAssets ELSE FullAssets]
        /\ loader = [t \in TerrainType |-> IF t = Sand THEN LoadStarted ELSE LoadDone]
        /\ canvasWidth = cv[1] /\ canvasHeight = cv[2]
        /\ ctxT = IdentityT /\ ctxStack = <<>>
        /\ calls = <<>>
        /\ ret = NoRet
        /\ snap = NoSnap /\ writes = 0

NextWang ==
    \/ ImgOnload
    \/ FetchResolved
    \/ JsonResolvedSample
    \/ ImageAwaited
    \/ AllAssetsLoaded
    \/ BtnTextured
    \/ Loop

SpecWang == InitWang /\ [][NextWang]_vars

\* ------------------------------------------------- grid accessors as an API
Coords == (-1)..MaxSize

GetCellCall ==
    \E x \in Coords, y \in Coords :
        /\ ret' = [kind |-> "getCell", x |-> x, y |-> y,
                   value |-> getCell(x, y), reads |-> getCellReads(x, y)]
        /\ calls' = <<>>
        /\ UNCHANGED <<perm, buckets, mouseVars, gridVars, viewVars, debugVars, assetVars,
                       canvasVars, ctxVars, histVars>>

SetCellAt(x, y, type) ==
    /\ writes < MaxWrites
    /\ cells' = setCell(width, height, cells, x, y, type)
    /\ ret' = [kind |-> "setCell", x |-> x, y |-> y, type |-> type, before |-> cells]
    /\ writes' = writes + 1
    /\ calls' = <<>>
    /\ UNCHANGED <<perm, buckets, mouseVars, width, height, viewVars, debugVars, assetVars,
                   canvasVars, ctxVars, snap>>

SetCellCall == \E x \in Coords, y \in Coords, type \in TerrainType : SetCellAt(x, y, type)

\* the grid as the page leaves it after the initial generation
InitCell ==
    /\ \E n \in 1..MaxSize, cv \in CanvasSizes : PageState(0, n, 0, cv)
    /\ snap = NoSnap

NextCell ==
    \/ GetCellCall
    \/ SetCellCall

SpecCell == InitCell /\ [][NextCell]_vars

\* the grid under cell writes and Apply with a size (generatePerlinMap on
\* the same or on a newly constructed grid); writes at and just past the
\* first and last row and column
EdgeCoords == {-1, 0, MaxSize - 1, MaxSize}
SetCellEdge ==
    \E x \in EdgeCoords, y \in EdgeCoords, type \in {Water, Grass} : SetCellAt(x, y, type)

NextGrid ==
    \/ SetCellEdge
    \/ ApplySize

SpecGrid == InitCell /\ [][NextGrid]_vars

\* ================================================ guide: TerrainGenerator
\* the bucket-driven generator of the implementation guide
DEFAULT_BUCKETS ==
    << [terrainType |-> Water, threshold |-> WATER_THRESHOLD],
       [terrainType |-> Sand, threshold |-> SAND_THRESHOLD],
       [terrainType |-> Dirt, threshold |-> DIRT_THRESHOLD],
       [terrainType |-> Grass, threshold |-> GRASS_THRESHOLD] >>

\* config.buckets: the default buckets, some or all of them, in any order
BucketLists ==
    { bs \in UNION { [1..k -> {DEFAULT_BUCKETS[i] : i \in 1..4}] : k \in 1..4 } :
        \A i, j \in DOMAIN bs : i # j => bs[i] # bs[j] }

RemoveAt(bs, i) == SubSeq(bs, 1, i - 1) \o SubSeq(bs, i + 1, Len(bs))

\* [...config.buckets].sort((a, b) => b.threshold - a.threshold)
RECURSIVE SortByThresholdDesc(_)
SortByThresholdDesc(bs) ==
    IF bs = <<>> THEN <<>>
    ELSE LET i == CHOOSE k \in DOMAIN bs :
                    /\ \A j \in DOMAIN bs : bs[j].threshold <= bs[k].threshold
                    /\ \A j \in 1..(k - 1) : bs[j].threshold < bs[k].threshold
         IN  << bs[i] >> \o SortByThresholdDesc(RemoveAt(bs, i))

\* the bucket search of one cell: the first sorted bucket with
\* value >= threshold, else the last sorted bucket
RECURSIVE BucketSearch(_, _, _)
BucketSearch(sortedBuckets, value, type) ==
    IF sortedBuckets = <<>> THEN type
    ELSE IF value >= Head(sortedBuckets).threshold THEN Head(sortedBuckets).terrainType
    ELSE BucketSearch(Tail(sortedBuckets), value, type)

BucketTerrain(sortedBuckets, value) ==
    BucketSearch(sortedBuckets, value, sortedBuckets[Len(sortedBuckets)].terrainType)

\* TerrainGenerator.generatePerlinMap(config): the buckets are kept as
\* supplied, every cell is set from its noise value
GuideGenerate ==
    \E bs \in BucketLists, seed \in Seeds :
        LET sortedBuckets == SortByThresholdDesc(bs)
        IN  /\ buckets' = bs
            /\ cells' = [i \in 0..(width * height - 1) |->
                            BucketTerrain(sortedBuckets,
                                NoiseAt(perm, i % width, i \div width, INITIAL_SCALE, seed))]
            /\ ret' = [kind |-> "guideGenerate", seed |-> seed]
            /\ calls' = <<>>
            /\ UNCHANGED <<perm, mouseVars, width, height, viewVars, debugVars, assetVars,
                           canvasVars, ctxVars, histVars>>

\* this.buckets.slice(1).map(b => b.terrainType)
getTransitionLayerOrder ==
    [i \in 1..(Len(buckets) - 1) |-> buckets[i + 1].terrainType]

GetTransitionLayerOrder ==
    /\ ret' = [kind |-> "layerOrder", order |-> getTransitionLayerOrder]
    /\ calls' = <<>>
    /\ UNCHANGED <<perm, buckets, mouseVars, gridVars, viewVars, debugVars, assetVars,
                   canvasVars, ctxVars, histVars>>

InitBuckets ==
    /\ \E n \in 1..MaxSize, cv \in CanvasSizes : PageState(0, n, 0, cv)
    /\ snap = NoSnap

NextBuckets ==
    \/ GuideGenerate
    \/ GetTransitionLayerOrder

SpecBuckets == InitBuckets /\ [][NextBuckets]_vars

\* ================================================================== claims
Buckets == { [terrainType |-> Water, threshold |-> WATER_THRESHOLD],
             [terrainType |-> Sand, threshold |-> SAND_THRESHOLD],
             [terrainType |-> Dirt, threshold |-> DIRT_THRESHOLD],
             [terrainType |-> Grass, threshold |-> GRASS_THRESHOLD] }

\* C8: after generatePerlinMap every cell holds the terrain of the bucket with
\* the greatest threshold <= the cell's noise value (thresholds included), or
\* Water when no bucket qualifies.
C8_GreatestThresholdBucket ==
    ret.kind = "generate" =>
        \A i \in DOMAIN cells :
            LET v == ret.noise[i]
                q == {b \in Buckets : b.threshold <= v}
            IN  cells[i] = IF q = {} THEN Water
                           ELSE (CHOOSE b \in q : \A c \in q : c.threshold <= b.threshold).terrainType

\* C9: two generatePerlinMap runs with the same seed, scale and grid size
\* leave identical cells, whatever else the program state is.
C9_SameSeedSameGrid ==
    (/\ ret.kind = "generate" /\ snap.kind = "generate"
     /\ ret.seed = snap.seed /\ ret.scale = snap.scale
     /\ ret.width = snap.width /\ ret.height = snap.height)
        => ret.cells = snap.cells

\* ------------------------------------------------------ reading the frame
TileXs == 0..(width - 2)
TileYs == 0..(height - 2)
TransitionLayers == {Sand, Dirt, Grass}
grid(x, y) == cells[y * width + x]

IsMarker(c) == c.op \in {"drawTileByRole", "drawTileByRoleExport"}
IsOverlay(c) == c.pass \in {"worldGrid", "dualGrid", "debug"}
RenderFrame == ret.kind = "loop" /\ assetsLoaded
ExportFrame == ret.kind = "export" /\ ret.canvas

\* indices of the tile-drawer invocations of one pass at one tile
DrawsAt(pass, x, y) ==
    {i \in DOMAIN calls : IsMarker(calls[i]) /\ calls[i].pass = pass
                          /\ calls[i].x = x /\ calls[i].y = y}

FormulaRole(x, y, L) ==
      (IF grid(x, y) >= L THEN 1 ELSE 0)
    + (IF grid(x + 1, y) >= L THEN 2 ELSE 0)
    + (IF grid(x + 1, y + 1) >= L THEN 4 ELSE 0)
    + (IF grid(x, y + 1) >= L THEN 8 ELSE 0)

Corners(x, y) == {grid(x, y), grid(x + 1, y), grid(x + 1, y + 1), grid(x, y + 1)}
MinCorner(x, y) == CHOOSE m \in Corners(x, y) : \A c \in Corners(x, y) : m <= c

\* C1: the role render() computes for tile (x, y) and layer L is
\* (grid(x,y)>=L ?1) | (grid(x+1,y)>=L ?2) | (grid(x+1,y+1)>=L ?4) | (grid(x,y+1)>=L ?8),
\* and that is the role its transition draw carries.
C1_RenderRoleFormula ==
    \A x \in TileXs, y \in TileYs, L \in TransitionLayers :
        /\ RenderRole(x, y, L) = FormulaRole(x, y, L)
        /\ (RenderFrame /\ showTransitionLayer) =>
              LET d == {i \in DrawsAt("transition", x, y) : calls[i].layer = L}
              IN  IF FormulaRole(x, y, L) \in {0, 15} THEN d = {}
                  ELSE /\ Cardinality(d) = 1
                       /\ \A i \in d : calls[i].role = FormulaRole(x, y, L)

C1_Witness ==
    /\ RenderFrame /\ showTransitionLayer
    /\ \E i \in DOMAIN calls :
          /\ IsMarker(calls[i]) /\ calls[i].pass = "transition"
          /\ grid(calls[i].x, calls[i].y) > calls[i].layer
          /\ grid(calls[i].x + 1, calls[i].y + 1) < calls[i].layer
          /\ BitAnd(calls[i].role, 1) = 1 /\ BitAnd(calls[i].role, 4) = 0

\* C2: no transition-pass invocation of the tile drawer, in render() or in
\* exportToImage(), carries role 0 or 15.
C2_TransitionRoleRange ==
    \A i \in DOMAIN calls :
        (IsMarker(calls[i]) /\ calls[i].pass = "transition") => calls[i].role \in 1..14

C2_Witness ==
    /\ ExportFrame
    /\ \E i \in DOMAIN calls : IsMarker(calls[i]) /\ calls[i].pass = "transition"
    /\ \E x \in TileXs, y \in TileYs, L \in TransitionLayers : FormulaRole(x, y, L) = 15
    /\ \E x \in TileXs, y \in TileYs, L \in TransitionLayers : FormulaRole(x, y, L) = 0

\* C3: with assets loaded and the base layer shown, a frame has exactly one
\* base draw per tile position, of the minimum corner terrain with role 15;
\* with the base layer hidden it has no role-15 draw at all.
C3_BasePass ==
    RenderFrame =>
        IF showBaseLayer
        THEN /\ \A x \in TileXs, y \in TileYs :
                   /\ Cardinality(DrawsAt("base", x, y)) = 1
                   /\ \A i \in DrawsAt("base", x, y) :
                          calls[i].layer = MinCorner(x, y) /\ calls[i].role = 15
             /\ Cardinality({i \in DOMAIN calls : IsMarker(calls[i]) /\ calls[i].pass = "base"})
                    = Cardinality(TileXs \X TileYs)
        ELSE \A i \in DOMAIN calls : IsMarker(calls[i]) => calls[i].role # 15

C3_Witness ==
    /\ RenderFrame /\ showBaseLayer /\ width >= 3
    /\ \E x1 \in TileXs, y1 \in TileYs, x2 \in TileXs, y2 \in TileYs :
          /\ MinCorner(x1, y1) # MinCorner(x2, y2)
          /\ grid(x1, y1) # MinCorner(x1, y1)

\* C4: within a frame the tile draws come in the order base, Sand, Dirt, Grass,
\* and every overlay draw comes after every terrain draw.
PassRank(c) ==
    IF IsOverlay(c) THEN 4
    ELSE IF c.pass = "base" THEN 0
    ELSE c.layer

C4_PassOrder ==
    RenderFrame =>
        /\ \A i \in DOMAIN calls, j \in DOMAIN calls :
              (/\ i < j
               /\ (IsMarker(calls[i]) \/ IsOverlay(calls[i]))
               /\ (IsMarker(calls[j]) \/ IsOverlay(calls[j])))
                  => PassRank(calls[i]) <= PassRank(calls[j])
        /\ \A i \in DOMAIN calls, j \in DOMAIN calls :
              (IsOverlay(calls[i]) /\ calls[j].pass = "tile") => j < i

C4_Witness ==
    /\ RenderFrame
    /\ \E i \in DOMAIN calls : IsMarker(calls[i]) /\ calls[i].pass = "base"
    /\ \A L \in TransitionLayers :
          \E i \in DOMAIN calls :
              IsMarker(calls[i]) /\ calls[i].pass = "transition" /\ calls[i].layer = L
    /\ \A o \in {"worldGrid", "dualGrid", "debug"} :
          \E i \in DOMAIN calls : calls[i].pass = o

\* C5: render(), exportToImage() and getDebugInfo() agree on the corners, the
\* base terrain and every layer's role of every tile ...
SameSampling ==
    \A x \in TileXs, y \in TileYs :
        LET info == getDebugInfo(x, y)
        IN  /\ info # NoInfo
            /\ info.corners = [tl |-> grid(x, y), tr |-> grid(x + 1, y),
                               bl |-> grid(x + 1, y + 1), br |-> grid(x, y + 1)]
            /\ info.baseLayer.terrain = RenderBaseTerrain(x, y)
            /\ info.baseLayer.terrain = ExportBaseTerrain(x, y)
            /\ \A k \in 1..3 :
                  /\ info.transitionLayers[k].terrain = layerOrder[k]
                  /\ info.transitionLayers[k].role = RenderRole(x, y, layerOrder[k])
                  /\ info.transitionLayers[k].role = ExportRole(x, y, layerOrder[k])

\* ... and getDebugInfo reports drawn = TRUE exactly for the (tile, layer)
\* pairs for which the frame holds a transition draw
DrawnIffIssued ==
    \A x \in TileXs, y \in TileYs, k \in 1..3 :
        getDebugInfo(x, y).transitionLayers[k].drawn
            <=> (\E i \in DrawsAt("transition", x, y) : calls[i].layer = layerOrder[k])

FrameT ==
    \* the transform after save / translate / scale / translate of this frame
    LET i == CHOOSE k \in DOMAIN calls : calls[k].op = "save"
    IN  [a |-> calls[i + 4].ta, bx |-> calls[i + 4].tbx, by |-> calls[i + 4].tby]

C6_SaveRestoreBracketFrame ==
    RenderFrame =>
        /\ Cardinality({i \in DOMAIN calls : calls[i].op = "save"}) = 1
        /\ calls[2].op = "save"
        /\ Cardinality({i \in DOMAIN calls : calls[i].op = "restore"}) = 1
        /\ calls[Len(calls)].op = "restore"
        /\ \A i \in DOMAIN calls :
              (calls[i].pass = "tile" \/ IsOverlay(calls[i]))
                  => [a |-> calls[i].ta, bx |-> calls[i].tbx, by |-> calls[i].tby] = FrameT

\* C7: screenToGrid applied to the on-screen point where render() places tile
\* (x, y) returns (x, y), for every origin and zoom level.
C7_HitTestInvertsDraw ==
    RenderFrame =>
        \A i \in DOMAIN calls :
            calls[i].op = "drawTileByRole" =>
                LET g == screenToGrid(ScreenX(calls[i]), ScreenY(calls[i]))
                IN  g.x = calls[i].x /\ g.y = calls[i].y

OutOfRange(x, y) == ~(0 <= x /\ x < width /\ 0 <= y /\ y < height)

\* C10: out of range, getCell returns Water without touching the cell array
\* and setCell changes no cell; in range, setCell changes exactly the cell at
\* index y * width + x and getCell then returns the value written.
C10_BoundsSafeAccessors ==
    /\ (ret.kind = "getCell" /\ OutOfRange(ret.x, ret.y))
          => (ret.value = Water /\ ret.reads = {})
    /\ (ret.kind = "setCell" /\ OutOfRange(ret.x, ret.y))
          => cells = ret.before
    /\ (ret.kind = "setCell" /\ ~OutOfRange(ret.x, ret.y))
          => /\ DOMAIN cells = DOMAIN ret.before
             /\ \A i \in DOMAIN cells :
                    i # ret.y * width + ret.x => cells[i] = ret.before[i]
             /\ cells[ret.y * width + ret.x] = ret.type
             /\ getCell(ret.x, ret.y) = ret.type

C10_Witness ==
    /\ ret.kind = "setCell" /\ ~OutOfRange(ret.x, ret.y)
    /\ ret.x # ret.y
    /\ ret.before[ret.y * width + ret.x] # ret.type

\* C11: under every interleaving of the four loads, a frame made while
\* assetsLoaded is false holds nothing but the background and the loading
\* message; assetsLoaded is true only when terrainAssets holds an entry for
\* all four terrain types; and once true it stays true.
LoadingFrameOnly ==
    (ret.kind = "loop" /\ ~assetsLoaded)
        => \A i \in DOMAIN calls : calls[i].pass \in {"background", "loading"}

LoadedMeansAllStored ==
    assetsLoaded => \A t \in TerrainType : terrainAssets[t].has /\ loader[t].pc = "done"

C11_AssetsGate ==
    /\ [](LoadingFrameOnly /\ LoadedMeansAllStored)
    /\ [][assetsLoaded => assetsLoaded']_vars

C11_Witness ==
    /\ ret.kind = "loop" /\ ~assetsLoaded
    /\ \E t \in TerrainType : terrainAssets[t].has
    /\ \E t \in TerrainType : loader[t].pc = "failed"
    /\ Len(calls) = 2

\* C12: in the two colored modes a frame draws the terrain whether or not the
\* assets have been loaded: every frame of a grid with at least one tile and
\* the base layer shown holds tile draws.
C12_ColoredModesIgnoreGate ==
    (/\ ret.kind = "loop"
     /\ renderMode \in {IsometricColored, OrthographicColored}
     /\ showBaseLayer /\ width >= 2 /\ height >= 2)
        => \E i \in DOMAIN calls : calls[i].pass = "tile"

\* C13: in textured mode a tile draw whose terrain has no asset entry, or whose
\* role has no tile id, issues nothing, and nothing else is lost: the frame
\* still invokes the drawer for every tile and layer it should, and every
\* invocation that does resolve issues its drawImage.
Resolves(c) ==
    /\ terrainAssets[c.layer].has
    /\ c.role \in DOMAIN terrainAssets[c.layer].roleToId

ImageDrawnAfter(i) ==
    /\ i < Len(calls)
    /\ calls[i + 1].op = "drawImage"
    /\ calls[i + 1].layer = calls[i].layer /\ calls[i + 1].role = calls[i].role
    /\ calls[i + 1].px = calls[i].px - Half(TILE_WIDTH)
    /\ calls[i + 1].py = calls[i].py - Half(TILE_HEIGHT)

EveryTileInvoked ==
    \A x \in TileXs, y \in TileYs :
        /\ showBaseLayer => Cardinality(DrawsAt("base", x, y)) = 1
        /\ showTransitionLayer =>
              \A L \in TransitionLayers :
                  FormulaRole(x, y, L) \in 1..14
                      => \E i \in DrawsAt("transition", x, y) : calls[i].layer = L

C13_TexturedSkipsSingleTile ==
    ((RenderFrame \/ ExportFrame) /\ renderMode = IsometricTextured) =>
        /\ EveryTileInvoked
        /\ \A i \in DOMAIN calls :
              IsMarker(calls[i]) => (ImageDrawnAfter(i) <=> Resolves(calls[i]))
        /\ Cardinality({i \in DOMAIN calls : calls[i].op = "drawImage"})
              = Cardinality({i \in DOMAIN calls : IsMarker(calls[i]) /\ Resolves(calls[i])})

C13_Witness ==
    /\ RenderFrame /\ renderMode = IsometricTextured
    /\ \E i, j \in DOMAIN calls :
          /\ i < j
          /\ IsMarker(calls[i]) /\ ~Resolves(calls[i])
          /\ IsMarker(calls[j]) /\ Resolves(calls[j]) /\ ImageDrawnAfter(j)

\* C14: an export whose computed width or height exceeds 16384, or whose
\* width * height exceeds 100,000,000, creates no canvas and draws nothing, and
\* the computed dimensions are reported; every other export returns a canvas
\* of exactly the computed dimensions.
RequiredWidth ==
    IF renderMode = OrthographicColored THEN 40 * (width - 1)
    ELSE 32 * (width + height - 1) + 64

RequiredHeight ==
    IF renderMode = OrthographicColored THEN 40 * (height - 1)
    ELSE 16 * (width + height - 1) + 32

Oversized ==
    \/ RequiredWidth > 16384
    \/ RequiredHeight > 16384
    \/ RequiredWidth * RequiredHeight > 100000000

C14_OversizedExportRejected ==
    ret.kind = "export" =>
        IF Oversized
        THEN /\ ~ret.canvas
             /\ calls = <<>>
             /\ ret.alert = <<width, height, RequiredWidth, RequiredHeight>>
        ELSE /\ ret.canvas
             /\ ret.width = RequiredWidth /\ ret.height = RequiredHeight
             /\ calls # <<>>

C14_Witness ==
    /\ ret.kind = "export" /\ ~ret.canvas
    /\ RequiredWidth <= 16384 /\ RequiredHeight <= 16384

\* C15: every tile drawn by an export lies entirely inside the export canvas
\* [0, canvasWidth] x [0, canvasHeight]: the 64x32 diamond centred on the draw
\* position in the isometric modes, the 40x40 square at the draw position in
\* orthographic mode (half pixels: the canvas spans 0..2*width, 0..2*height).
IsExportMarker(c) == c.op = "drawTileByRoleExport"

TileInsideCanvas(c) ==
    IF renderMode = OrthographicColored
    THEN /\ 0 <= c.px /\ c.px + 80 <= 2 * ret.width
         /\ 0 <= c.py /\ c.py + 80 <= 2 * ret.height
    ELSE /\ 0 <= c.px - 64 /\ c.px + 64 <= 2 * ret.width
         /\ 0 <= c.py - 32 /\ c.py + 32 <= 2 * ret.height

C15_ExportTilesInsideCanvas ==
    ExportFrame =>
        \A i \in DOMAIN calls : IsExportMarker(calls[i]) => TileInsideCanvas(calls[i])

\* C16: for the same grid, render mode and layer flags, exportToImage issues
\* the same sequence of terrain draw directives (tile x, tile y, terrain
\* layer, role) as render(): the base pass over all tiles, rows first, then
\* the Sand, Dirt and Grass passes with roles 0 and 15 skipped.
Directives(cs) ==
    LET ms == SelectSeq(cs, IsMarker)
    IN  [i \in 1..Len(ms) |-> <<ms[i].x, ms[i].y, ms[i].layer, ms[i].role>>]

TileCount == IF width < 2 \/ height < 2 THEN 0 ELSE (width - 1) * (height - 1)
TileXOf(i) == (i - 1) % (width - 1)
TileYOf(i) == (i - 1) \div (width - 1)

ExpectedBase ==
    IF ~showBaseLayer THEN <<>>
    ELSE [i \in 1..TileCount |->
            <<TileXOf(i), TileYOf(i), MinCorner(TileXOf(i), TileYOf(i)), 15>>]

IsEdgeDirective(d) == d[4] \notin {0, 15}

ExpectedLayer(L) ==
    SelectSeq([i \in 1..TileCount |->
                 <<TileXOf(i), TileYOf(i), L, FormulaRole(TileXOf(i), TileYOf(i), L)>>],
              IsEdgeDirective)

ExpectedDirectives ==
    ExpectedBase \o (IF ~showTransitionLayer THEN <<>>
                     ELSE ExpectedLayer(Sand) \o ExpectedLayer(Dirt) \o ExpectedLayer(Grass))

C16_ExportSameDirectivesAsRender ==
    /\ RenderFrame =>
          /\ Directives(calls) = Directives(exportToImage.calls)
          /\ Directives(calls) = ExpectedDirectives
    /\ ExportFrame =>
          /\ Directives(calls) = Directives(render)
          /\ Directives(calls) = ExpectedDirectives

C16_Witness ==
    /\ ExportFrame /\ showBaseLayer /\ showTransitionLayer
    /\ zoomLevel # 1
    /\ Len(Directives(calls)) > TileCount
    /\ \E i \in DOMAIN calls : IsMarker(calls[i]) /\ calls[i].layer = Grass
                                /\ calls[i].pass = "transition"

\* C17: Apply with an invalid configuration (size below 1, above 500 or not a
\* number; or a non-empty seed that is not a number) changes neither the grid
\* (width, height, cells) nor the render settings nor the selected debug tile,
\* and generates nothing.
InvalidConfig(sizeText, seedText) ==
    LET n == parseInt(sizeText)
        sd == trim(seedText)
    IN  \/ n = NaN \/ n < 1 \/ n > 500
        \/ (sd # <<>> /\ parseFloat(sd) = NaN)

AppliedForm == "form" \in DOMAIN ret

C18_ResizeReplacesGrid ==
    [][(/\ AppliedForm'
        /\ ~InvalidConfig(ret'.form[1], ret'.form[2])
        /\ parseInt(ret'.form[1]) # width)
          => LET n == parseInt(ret'.form[1])
             IN  /\ width' = n /\ height' = n
                 /\ DOMAIN cells' = 0..(n * n - 1)
                 /\ ret'.kind = "generate" /\ ret'.width = n /\ ret'.height = n
                 /\ \A i \in 0..(n * n - 1) : cells'[i] = TerrainOfNoise(ret'.noise[i])
                 /\ UNCHANGED viewVars]_vars

C18_Witness ==
    /\ AppliedForm /\ ret.kind = "generate" /\ width = 3 /\ ret.form[1] = ToText(3) \o <<"x">>
    /\ renderMode = OrthographicColored /\ zoomLevel = 2
    /\ cameraOffsetX # 0 /\ cameraOffsetY # 0
    /\ ~showBaseLayer /\ ~showTransitionLayer /\ showWorldGrid /\ showDualGrid

\* C19: a transition tile of layer L is drawn only at tiles where at least one
\* of the four corner cells has terrain exactly L.
C19_TransitionOnlyWhereTerrainExists ==
    (RenderFrame \/ ExportFrame) =>
        \A i \in DOMAIN calls :
            (IsMarker(calls[i]) /\ calls[i].pass = "transition")
                => calls[i].layer \in Corners(calls[i].x, calls[i].y)

\* C20: the role-to-id table stored for a terrain has exactly the roles of
\* wang_sets[0].members (later wang sets ignored), each mapped to the id of
\* the last member carrying it; a role without entry looks up as undefined
\* and its textured draw is skipped; metadata without wang_sets[0] gives the
\* empty table.
FirstMembers(w) == IF Len(w) >= 1 THEN w[1] ELSE <<>>

LastWith(ms, r) ==
    CHOOSE i \in DOMAIN ms : ms[i].role = r /\ \A j \in DOMAIN ms : ms[j].role = r => j <= i

TableMatches(a) ==
    LET ms == FirstMembers(a.wangData)
    IN  /\ DOMAIN a.roleToId = {ms[i].role : i \in DOMAIN ms}
        /\ \A r \in DOMAIN a.roleToId : a.roleToId[r] = ms[LastWith(ms, r)].id
        /\ \A r \in 1..15 :
              r \notin {ms[i].role : i \in DOMAIN ms} => MapGet(a.roleToId, r) = Undefined

MissingRoleSkipped ==
    (RenderFrame /\ renderMode = IsometricTextured) =>
        \A i \in DOMAIN calls :
            (IsMarker(calls[i])
             /\ calls[i].role \notin DOMAIN terrainAssets[calls[i].layer].roleToId)
                => ~ImageDrawnAfter(i)

C20_RoleToIdTable ==
    /\ \A t \in TerrainType : terrainAssets[t].has => TableMatches(terrainAssets[t])
    /\ MissingRoleSkipped

C20_Witness ==
    LET a == terrainAssets[Sand]
    IN  /\ RenderFrame /\ renderMode = IsometricTextured
        /\ a.has /\ Len(a.wangData) = 2
        /\ Len(a.wangData[1]) = 2
        /\ a.wangData[1][1].role = 1 /\ a.wangData[1][2].role = 1
        /\ a.wangData[1][1].id # a.wangData[1][2].id
        /\ \E i \in DOMAIN calls : IsMarker(calls[i]) /\ calls[i].layer = Sand

\* C21: for a bucket list supplied in any order, getTransitionLayerOrder
\* returns the terrain types of all buckets except the one with the minimum
\* threshold, in ascending order of threshold.
AscendingBuckets(bs) ==
    CHOOSE o \in [1..Len(bs) -> {bs[i] : i \in DOMAIN bs}] :
        \A i, j \in DOMAIN o : i < j => o[i].threshold < o[j].threshold

ExpectedLayerOrder(bs) ==
    [i \in 1..(Len(bs) - 1) |-> AscendingBuckets(bs)[i + 1].terrainType]

C21_TransitionLayerOrder ==
    (ret.kind = "layerOrder" /\ buckets # <<>>) => ret.order = ExpectedLayerOrder(buckets)

\* C22: at every tile the role computed for L = the minimum corner terrain is
\* 15; the base pass draws that terrain with role 15 and the transition pass
\* issues no draw of it.
C22_MinLayerRoleIsFull ==
    \A x \in TileXs, y \in TileYs :
        /\ RenderRole(x, y, MinCorner(x, y)) = 15
        /\ ExportRole(x, y, MinCorner(x, y)) = 15
        /\ (RenderFrame \/ ExportFrame) =>
              /\ showBaseLayer =>
                    \E i \in DrawsAt("base", x, y) :
                        calls[i].layer = MinCorner(x, y) /\ calls[i].role = 15
              /\ \A i \in DrawsAt("transition", x, y) : calls[i].layer # MinCorner(x, y)

C22_Witness ==
    /\ RenderFrame /\ showBaseLayer /\ showTransitionLayer
    /\ \E x \in TileXs, y \in TileYs :
          /\ MinCorner(x, y) = Sand
          /\ Cardinality(Corners(x, y)) = 3
          /\ Cardinality(DrawsAt("transition", x, y)) = 2

\* C23: for fixed corners and layers L1 <= L2, every bit set in role(L2) is
\* set in role(L1), in the roles render() and exportToImage() compute, in the
\* roles carried by the draws of a frame and in the roles getDebugInfo reports.
BitsWithin(r2, r1) == \A bit \in {1, 2, 4, 8} : BitAnd(r2, bit) = bit => BitAnd(r1, bit) = bit

C23_RoleBitsMonotone ==
    /\ \A x \in TileXs, y \in TileYs, L1 \in TerrainType, L2 \in TerrainType :
          L1 <= L2 =>
              /\ BitsWithin(RenderRole(x, y, L2), RenderRole(x, y, L1))
              /\ BitsWithin(ExportRole(x, y, L2), ExportRole(x, y, L1))
    /\ (RenderFrame \/ ExportFrame) =>
          \A i, j \in DOMAIN calls :
              (/\ IsMarker(calls[i]) /\ IsMarker(calls[j])
               /\ calls[i].x = calls[j].x /\ calls[i].y = calls[j].y
               /\ calls[i].pass = "transition" /\ calls[j].pass = "transition"
               /\ calls[i].layer <= calls[j].layer)
                  => BitsWithin(calls[j].role, calls[i].role)
    /\ selectedTileDebugInfo # NoInfo =>
          \A k1, k2 \in 1..3 :
              k1 <= k2 => BitsWithin(selectedTileDebugInfo.transitionLayers[k2].role,
                                     selectedTileDebugInfo.transitionLayers[k1].role)

C23_Witness ==
    /\ RenderFrame /\ showTransitionLayer
    /\ selectedTileDebugInfo # NoInfo
    /\ selectedTileDebugInfo.transitionLayers[1].role = 14
    /\ selectedTileDebugInfo.transitionLayers[2].role = 12
    /\ selectedTileDebugInfo.transitionLayers[3].role = 8
    /\ Cardinality(DrawsAt("transition", selectedTileDebugInfo.gridX,
                           selectedTileDebugInfo.gridY)) = 3

\* C24: after a frame with both layers shown, for every tile and each of its
\* four corners, the last invocation of the tile drawer whose role covers the
\* corner's bit (the base invocation covers all four) carries the terrain of
\* that corner's cell; in orthographic mode the last fillRect of the bit's
\* quadrant is made with that terrain's colour, and all fills of one quadrant
\* of one tile are issued for the same rectangle.
RoleBits == {1, 2, 4, 8}
CornerCell(x, y, bit) ==
    CASE bit = 1 -> grid(x, y)
      [] bit = 2 -> grid(x + 1, y)
      [] bit = 4 -> grid(x + 1, y + 1)
      [] bit = 8 -> grid(x, y + 1)

MaxOf(S) == CHOOSE m \in S : \A k \in S : k <= m

\* the invocations of the tile drawer for tile (x, y) whose role has the bit
CoveringDraws(x, y, bit) ==
    {i \in DOMAIN calls : /\ IsMarker(calls[i])
                          /\ calls[i].x = x /\ calls[i].y = y
                          /\ BitAnd(calls[i].role, bit) = bit}

\* the fillRect calls the invocation at index i issued
QuadrantFills(i) ==
    {j \in (i + 1)..(i + 4) :
        /\ j <= Len(calls)
        /\ \A k \in (i + 1)..j : calls[k].op = "fillRect" /\ calls[k].pass = "tile"}

\* the fills of the quadrant of one bit of tile (x, y)
FillsOf(x, y, bit) ==
    UNION { {j \in QuadrantFills(i) : calls[j].role = bit} : i \in CoveringDraws(x, y, bit) }

C24_LastCoveringDraw ==
    (RenderFrame /\ showBaseLayer /\ showTransitionLayer) =>
        \A x \in TileXs, y \in TileYs, bit \in RoleBits :
            /\ CoveringDraws(x, y, bit) # {}
            /\ calls[MaxOf(CoveringDraws(x, y, bit))].layer = CornerCell(x, y, bit)
            /\ renderMode = OrthographicColored =>
                  /\ Cardinality(FillsOf(x, y, bit)) = Cardinality(CoveringDraws(x, y, bit))
                  /\ calls[MaxOf(FillsOf(x, y, bit))].layer = CornerCell(x, y, bit)
                  /\ \A j, k \in FillsOf(x, y, bit) :
                        calls[j].px = calls[k].px /\ calls[j].py = calls[k].py

C24_Witness ==
    /\ RenderFrame /\ showBaseLayer /\ showTransitionLayer
    /\ renderMode = OrthographicColored
    /\ \E x \in TileXs, y \in TileYs :
          /\ Cardinality(Corners(x, y)) = 4
          /\ grid(x + 1, y + 1) = Grass
          /\ Cardinality(FillsOf(x, y, 4)) = 4
          /\ Cardinality(FillsOf(x, y, 1)) < 4

\* C25: one render() pops with restore() exactly the states it pushed with
\* save(): after a frame the depth of the canvas state stack and the current
\* transform are those the frame started with (the frame's first call, the
\* background fill, is issued before render() touches the context).
PoppingRestores ==
    {i \in DOMAIN calls : calls[i].op = "restore" /\ calls[i].depth > 0}
Saves == {i \in DOMAIN calls : calls[i].op = "save"}

C25_SaveRestoreBalanced ==
    RenderFrame =>
        /\ Cardinality(PoppingRestores) = Cardinality(Saves)
        /\ Len(ctxStack) = calls[1].depth
        /\ ctxT = [a |-> calls[1].ta, bx |-> calls[1].tbx, by |-> calls[1].tby]

\* C26: in OrthographicColored mode the quadrant filled for a role bit lies at
\* the corner of the tile square where the sampled cell is: after a frame with
\* both layers shown the top-left quadrant of tile (x, y) has the colour of
\* cell (x, y), the top-right of (x+1, y), the bottom-right of (x+1, y+1)
\* and the bottom-left of (x, y+1).
\* the fills of tile (x, y) issued for the quadrant at column qx, row qy
FillsAt(x, y, qx, qy) ==
    UNION { {j \in QuadrantFills(i) :
                /\ calls[j].px = calls[i].px + qx * Half(ORTHO_SIZE)
                /\ calls[j].py = calls[i].py + qy * Half(ORTHO_SIZE)}
            : i \in DrawsAt("base", x, y) \cup DrawsAt("transition", x, y) }

C26_QuadrantAtSampledCorner ==
    (RenderFrame /\ renderMode = OrthographicColored
        /\ showBaseLayer /\ showTransitionLayer) =>
        \A x \in TileXs, y \in TileYs, qx \in {0, 1}, qy \in {0, 1} :
            /\ FillsAt(x, y, qx, qy) # {}
            /\ calls[MaxOf(FillsAt(x, y, qx, qy))].layer = grid(x + qx, y + qy)

\* C27: at zoom 1, for any camera offset, every canvas pixel strictly inside
\* the drawn shape of a tile (the 64 x 32 diamond about the tile's draw
\* position in the isometric modes, the 40 x 40 square from it in the
\* orthographic mode) is mapped by screenToGrid to that tile, and a pixel
\* outside every tile's shape selects no tile; a click does what the mapping
\* says.
\* the draw position of tile (x, y) in the current view, half pixels
TileDrawPosition(x, y) ==
    calculateTilePosition(x, y, Half(canvasWidth) + Px(cameraOffsetX),
                                Half(canvasHeight) + Px(cameraOffsetY))

\* twice the signed slack of pixel (px, py) against the outline of tile (x, y):
\* positive strictly inside, zero on the outline, negative outside
ShapeSlack(px, py, x, y) ==
    LET p == TileDrawPosition(x, y)
        dx == Px(px) - p.drawX
        dy == Px(py) - p.drawY
    IN  IF renderMode = OrthographicColored
        THEN LET sx == IF dx < Px(ORTHO_SIZE) - dx THEN dx ELSE Px(ORTHO_SIZE) - dx
                 sy == IF dy < Px(ORTHO_SIZE) - dy THEN dy ELSE Px(ORTHO_SIZE) - dy
             IN  IF sx < sy THEN sx ELSE sy
        ELSE Px(TILE_WIDTH \div 2) - (Abs(dx) + 2 * Abs(dy))

\* the pixels of the canvas around the map
WindowXs == (Half(canvasWidth) \div 2 + cameraOffsetX - (TILE_WIDTH \div 2) * (width - 1) - 2)
              .. (Half(canvasWidth) \div 2 + cameraOffsetX + ORTHO_SIZE * (width - 1) + 2)
WindowYs == (Half(canvasHeight) \div 2 + cameraOffsetY - 2)
              .. (Half(canvasHeight) \div 2 + cameraOffsetY + ORTHO_SIZE * (height - 1) + 2)

\* the pixels of the bounding box of the shape of tile (x, y)
BoxXs(x, y) ==
    LET p == TileDrawPosition(x, y)
    IN  IF renderMode = OrthographicColored
        THEN (p.drawX \div 2)..((p.drawX + Px(ORTHO_SIZE)) \div 2 + 1)
        ELSE ((p.drawX - Px(TILE_WIDTH \div 2)) \div 2)
                ..((p.drawX + Px(TILE_WIDTH \div 2)) \div 2 + 1)
BoxYs(x, y) ==
    LET p == TileDrawPosition(x, y)
    IN  IF renderMode = OrthographicColored
        THEN (p.drawY \div 2)..((p.drawY + Px(ORTHO_SIZE)) \div 2 + 1)
        ELSE ((p.drawY - Px(TILE_HEIGHT \div 2)) \div 2)
                ..((p.drawY + Px(TILE_HEIGHT \div 2)) \div 2 + 1)

InsideAnyShape(px, py) == \E x \in TileXs, y \in TileYs : ShapeSlack(px, py, x, y) > 0
OnOrInsideAnyShape(px, py) == \E x \in TileXs, y \in TileYs : ShapeSlack(px, py, x, y) >= 0

\* the tile screenToGrid and getDebugInfo select for a pixel, if any
Selects(px, py) ==
    LET g == screenToGrid(Px(px), Px(py))
    IN  getDebugInfo(g.x, g.y) # NoInfo

C27_PixelInsideTilePicksIt ==
    zoomLevel = 1 =>
        /\ \A x \in TileXs, y \in TileYs :
              \A px \in BoxXs(x, y), py \in BoxYs(x, y) :
                  ShapeSlack(px, py, x, y) > 0
                      => screenToGrid(Px(px), Px(py)) = [x |-> x, y |-> y]
        /\ \A px \in WindowXs, py \in WindowYs :
              Selects(px, py) => OnOrInsideAnyShape(px, py)
        /\ ret.kind = "click" =>
              /\ \A x \in TileXs, y \in TileYs :
                    ShapeSlack(ret.at[1], ret.at[2], x, y) > 0
                        => (ret.hit /\ debugTileX = x /\ debugTileY = y)
              /\ ~OnOrInsideAnyShape(ret.at[1], ret.at[2]) => ~ret.hit

C27_Witness ==
    /\ zoomLevel = 1 /\ cameraOffsetX # 0 /\ renderMode = IsometricTextured
    /\ ret.kind = "click" /\ ret.hit
    /\ debugTileX = 1 /\ debugTileY = 1
    /\ ShapeSlack(ret.at[1], ret.at[2], 1, 1) > 0

\* C28: after any sequence of tile clicks, Apply resizes and regenerations the
\* selected debug tile is (-1, -1) or a tile position of the current grid, and
\* the selection overlay of a frame is drawn for a tile of the current grid.
ValidTile(x, y) == 0 <= x /\ x < width - 1 /\ 0 <= y /\ y < height - 1

C28_DebugTileValid ==
    /\ (debugTileX = -1 /\ debugTileY = -1) \/ ValidTile(debugTileX, debugTileY)
    /\ RenderFrame =>
          LET d == {i \in DOMAIN calls : calls[i].pass = "debug"}
          IN  d # {} =>
                \* the outline of the selected tile is the last overlay call
                /\ ValidTile(calls[MaxOf(d)].x, calls[MaxOf(d)].y)
                /\ \A i \in d : /\ 0 <= calls[i].x /\ calls[i].x < width
                                /\ 0 <= calls[i].y /\ calls[i].y < height

\* a regeneration that resized the grid has run since a click on a tile the
\* smaller grid does not have
C28_Witness ==
    /\ debugTileX = -1 /\ debugTileY = -1
    /\ selectedTileDebugInfo # NoInfo
    /\ ~ValidTile(selectedTileDebugInfo.gridX, selectedTileDebugInfo.gridY)
    /\ ret.kind = "generate" /\ width = 2

\* C29: after construction and any sequence of generatePerlinMap, setCell and
\* Apply resizes, cells has exactly width * height entries, each one of Water,
\* Sand, Dirt, Grass; generatePerlinMap visits every cell exactly once, leaves
\* in each the terrain of that cell's noise value, and runs on the width and
\* height the grid keeps.
ScanIndex(p) == p.y * width + p.x

C29_CellsShape ==
    /\ DOMAIN cells = 0..(width * height - 1)
    /\ \A i \in DOMAIN cells : cells[i] \in {Water, Sand, Dirt, Grass}
    /\ LET scan == CellScan(width, height)
       IN  /\ Len(scan) = width * height
           /\ \A i \in DOMAIN scan :
                 /\ 0 <= scan[i].x /\ scan[i].x < width
                 /\ 0 <= scan[i].y /\ scan[i].y < height
           /\ \A i, j \in DOMAIN scan : ScanIndex(scan[i]) = ScanIndex(scan[j]) => i = j
           /\ {ScanIndex(scan[i]) : i \in DOMAIN scan} = DOMAIN cells
    /\ ret.kind = "generate" =>
          /\ ret.width = width /\ ret.height = height
          /\ \A i \in DOMAIN cells : cells[i] = TerrainOfNoise(ret.noise[i])

\* a generation has run on a grid that setCell had written to
C29_Witness ==
    /\ ret.kind = "generate" /\ writes > 0 /\ width = MaxSize
    /\ \E i \in DOMAIN cells : cells[i] # Water
    /\ \E i \in DOMAIN cells : cells[i] = Water

\* C30: over any sequence of mouse events on the canvas the camera offset
\* changes only on a mousemove of a drag (after a mousedown, before the next
\* mouseup or mouseleave), by exactly the pointer displacement since the
\* previous mousedown or mousemove of that drag; every other mouse event leaves
\* it unchanged, and no mouse event changes the grid.
MouseKinds == {"mousedown", "mousemove", "mouseup", "mouseleave"}

MouseEffect ==
    /\ ret'.kind \in MouseKinds
    /\ cells' = cells /\ width' = width /\ height' = height
    /\ CASE ret'.kind = "mousedown" ->
              /\ isDragging'
              /\ lastMouseX' = ret'.at[1] /\ lastMouseY' = ret'.at[2]
              /\ cameraOffsetX' = cameraOffsetX /\ cameraOffsetY' = cameraOffsetY
         [] ret'.kind = "mousemove" ->
              /\ isDragging' = isDragging
              /\ IF isDragging
                 THEN /\ cameraOffsetX' = cameraOffsetX + (ret'.at[1] - lastMouseX)
                      /\ cameraOffsetY' = cameraOffsetY + (ret'.at[2] - lastMouseY)
                      /\ lastMouseX' = ret'.at[1] /\ lastMouseY' = ret'.at[2]
                 ELSE /\ cameraOffsetX' = cameraOffsetX /\ cameraOffsetY' = cameraOffsetY
                      /\ lastMouseX' = lastMouseX /\ lastMouseY' = lastMouseY
         [] OTHER ->
              /\ ~isDragging'
              /\ lastMouseX' = lastMouseX /\ lastMouseY' = lastMouseY
              /\ cameraOffsetX' = cameraOffsetX /\ cameraOffsetY' = cameraOffsetY

C30_CameraFollowsDrag == [][MouseEffect]_vars

\* a second mousemove of a drag has moved the camera on, and a tile has been
\* selected by an earlier click
C30_Witness ==
    /\ ret.kind = "mousemove" /\ ret.dragging
    /\ cameraOffsetX = 3 /\ cameraOffsetY = 6
    /\ ret.at = <<403, 316>> /\ dragStartX = 400 /\ dragStartY = 316
    /\ debugTileX = 0

====
